---- MODULE Spec2Model ----
(***************************************************************************)
(* The request engine of antigravity-auth: the account pool                *)
(* (antigravity/accounts.py), the token cache and the dispatch loop        *)
(* (antigravity_auth/service.py), the endpoint loop of client.execute      *)
(* (antigravity_auth/client.py) and the storage file with its lock         *)
(* (antigravity_auth/storage.py).                                          *)
(*                                                                         *)
(* Time.  The code stores absolute millisecond timestamps and compares     *)
(* them with time.time().  Every such comparison has the form ts > now or  *)
(* ts - now, so the model stores each timestamp as its distance to the     *)
(* current clock: a stored value v stands for the timestamp now + v, and   *)
(* a value 0 for a timestamp that is not in the future.  Tick(d) lets d    *)
(* milliseconds pass and lowers every stored value by d (not below 0).     *)
(*                                                                         *)
(* Optional values.  None is the empty sequence << >>, a present value v   *)
(* is << v >>.  A Python dict is a function whose DOMAIN is its key set.   *)
(*                                                                         *)
(* Strings that are only compared (emails, project ids) are non-empty      *)
(* sequences of tokens, the empty string "" is << "" >> and an absent      *)
(* string is None.  added_at and last_used lie in the past: they are 0     *)
(* wherever time is relative, and the number of the operation that wrote   *)
(* them where the storage operations are run on their own (StorageSpec).   *)
(*                                                                         *)
(* Model names are sequences of lower-case tokens ("gemini-3-pro" is       *)
(* << "gemini-3", "-pro" >>); `tok in name` is token membership.           *)
(***************************************************************************)
EXTENDS Integers, Sequences, FiniteSets, TLC

VARIABLES
    disk,       \* the storage file: an AccountStorage document
    loaded,     \* AntigravityService._account_manager is not None
    accounts,   \* AccountManager._accounts
    active,     \* AccountManager._active_index_by_family
    cache,      \* AntigravityService._current_auth (account index -> AuthDetails)
    cfg,        \* AntigravityService configuration
    task,       \* the locals of each generate() coroutine
    ghost,      \* per task: what the running dispatch has done so far (history)
    marks,      \* history: <<id, quota key>> -> time left of the last mark
    pool_ops,   \* history: the number of direct operations made (PoolSpec, StorageSpec)
    lock,       \* the lock file: the process that holds it, or None
    proc,       \* the locals of each process running a storage operation
    torn,       \* the storage file is open for writing in place, partly written
    call,       \* the locals of one AntigravityClient.execute call
    eval,       \* a function of token.py or client.py run on its own: input and results
    orphans     \* each account object that was removed from the pool while a task held it

vars == <<disk, loaded, accounts, active, cache, cfg, task, ghost, marks, pool_ops, lock, proc, torn, call, eval, orphans>>

---------------------------------------------------------------------------
(* Program constants *)

SHORT_RETRY_THRESHOLD_MS == 5000
DEFAULT_RETRY_AFTER_MS == 60000
MIN_WAIT_FALLBACK_MS == 60000
ACCESS_TOKEN_EXPIRY_BUFFER_MS == 60000

MODEL_FAMILY_GEMINI == "gemini"
MODEL_FAMILY_CLAUDE == "claude"
HEADER_STYLE_ANTIGRAVITY == "antigravity"
HEADER_STYLE_GEMINI_CLI == "gemini-cli"

Families == {MODEL_FAMILY_GEMINI, MODEL_FAMILY_CLAUDE}
Styles == {HEADER_STYLE_ANTIGRAVITY, HEADER_STYLE_GEMINI_CLI}

---------------------------------------------------------------------------
(* Bounds and input sets *)

MaxAccounts == 2        \* identities in the storage file at start
MaxCalls == 1           \* generate() calls made on one service
MaxPoolOps == 2         \* direct pool operations in a run of PoolSpec

None == << >>
Some(v) == << v >>
IsNone(o) == o = << >>
Val(o) == o[1]

GEMINI_3_PRO == << "gemini-3", "-pro" >>
GEMINI_25_PRO == << "gemini-2.5", "-pro" >>
CLAUDE_SONNET == << "claude", "-sonnet" >>
Models == {GEMINI_3_PRO, GEMINI_25_PRO, CLAUDE_SONNET}

\* the model argument of generate: absent, the service's model is used
ModelArgs == {<< >>}
\* the max_retries arguments of generate
MaxRetriesArgs == {2}
\* expires_in (seconds) of a token response
ExpiresIn == {90}
\* whether the token endpoint returns a new refresh_token
Rotations == {FALSE}
\* amounts of time that pass in one step of the clock
TickSteps == {90000}
\* cooldowns found in the storage file at start
InitCooldowns == {None}
\* values of max_rate_limit_wait_seconds
MaxWaitSeconds == {0, 60}

Max(a, b) == IF a > b THEN a ELSE b
Min(a, b) == IF a < b THEN a ELSE b
SetMin(S) == CHOOSE x \in S : \A y \in S : x <= y
Age(v, d) == Max(0, v - d)
AgeOpt(o, d) == IF IsNone(o) THEN o ELSE Some(Age(Val(o), d))
At(seq, i) == seq[i + 1]
Indices(seq) == 0 .. (Len(seq) - 1)
EmptyDict == [k \in {} |-> 0]
Get(dict, k, default) == IF k \in DOMAIN dict THEN dict[k] ELSE default
Put(dict, k, v) == [x \in (DOMAIN dict) \cup {k} |-> IF x = k THEN v ELSE dict[x]]

---------------------------------------------------------------------------
(* client.py: family and header style of a model name *)

Contains(model, tok) == \E i \in 1 .. Len(model) : model[i] = tok

get_model_family(model) ==
    IF Contains(model, "claude") \/ Contains(model, "opus") \/ Contains(model, "sonnet")
    THEN MODEL_FAMILY_CLAUDE
    ELSE MODEL_FAMILY_GEMINI

get_header_style_from_model(model) ==
    IF get_model_family(model) = MODEL_FAMILY_CLAUDE THEN HEADER_STYLE_ANTIGRAVITY
    ELSE IF Contains(model, ":antigravity") THEN HEADER_STYLE_ANTIGRAVITY
    ELSE IF Contains(model, "gemini-3") /\ ~Contains(model, "-preview")
         THEN HEADER_STYLE_ANTIGRAVITY
    ELSE HEADER_STYLE_GEMINI_CLI

---------------------------------------------------------------------------
(* accounts.py: quota keys and the rate-limit predicates *)

\* a key "base:model" is << base, model >>, a bare key is << base >>;
\* model = << >> is the absent model
get_quota_key(family, header_style, model) ==
    IF family = MODEL_FAMILY_CLAUDE THEN << "claude" >>
    ELSE LET base == IF header_style = HEADER_STYLE_ANTIGRAVITY
                     THEN "gemini-antigravity" ELSE "gemini-cli"
         IN  IF model # << >> THEN << base, model >> ELSE << base >>

CoolingDown(account) ==
    ~IsNone(account.cooling_down_until) /\ Val(account.cooling_down_until) > 0

\* mutant: Gemini is rate-limited as soon as one of its two quotas is exhausted
is_rate_limited_either_quota(account, family, model) ==
    IF CoolingDown(account) THEN TRUE
    ELSE IF family = MODEL_FAMILY_CLAUDE
         THEN Get(account.rate_limit_reset_times, << "claude" >>, 0) > 0
    ELSE \/ Get(account.rate_limit_reset_times,
                get_quota_key(family, HEADER_STYLE_ANTIGRAVITY, model), 0) > 0
         \/ Get(account.rate_limit_reset_times,
                get_quota_key(family, HEADER_STYLE_GEMINI_CLI, model), 0) > 0

is_rate_limited(account, family, model) ==
    IF CoolingDown(account) THEN TRUE
    ELSE IF family = MODEL_FAMILY_CLAUDE
         THEN Get(account.rate_limit_reset_times, << "claude" >>, 0) > 0
    ELSE LET antigravity_key == get_quota_key(family, HEADER_STYLE_ANTIGRAVITY, model)
             cli_key == get_quota_key(family, HEADER_STYLE_GEMINI_CLI, model)
         IN  /\ Get(account.rate_limit_reset_times, antigravity_key, 0) > 0
             /\ Get(account.rate_limit_reset_times, cli_key, 0) > 0

is_rate_limited_for_header_style(account, family, header_style, model) ==
    IF CoolingDown(account) THEN TRUE
    ELSE Get(account.rate_limit_reset_times,
             get_quota_key(family, header_style, model), 0) > 0

\* None, or the available style
get_available_header_style(account, family, model) ==
    IF family = MODEL_FAMILY_CLAUDE
    THEN IF ~is_rate_limited_for_header_style(account, family, HEADER_STYLE_ANTIGRAVITY, model)
         THEN Some(HEADER_STYLE_ANTIGRAVITY) ELSE None
    ELSE IF ~is_rate_limited_for_header_style(account, family, HEADER_STYLE_ANTIGRAVITY, model)
         THEN Some(HEADER_STYLE_ANTIGRAVITY)
    ELSE IF ~is_rate_limited_for_header_style(account, family, HEADER_STYLE_GEMINI_CLI, model)
         THEN Some(HEADER_STYLE_GEMINI_CLI)
    ELSE None

---------------------------------------------------------------------------
(* accounts.py: selection, marking, minimum wait, removal.  A pool position *)
(* is a 0-based index into accounts; an account object is named by its id.  *)

\* None on an empty pool, else the position of the family's current account
get_current_account_for_family(accs, act, family) ==
    IF Len(accs) = 0 THEN None
    ELSE LET index == act[family]
         IN  IF 0 <= index /\ index < Len(accs) THEN Some(index) ELSE Some(0)

\* mutant: the scan starts at the head of the pool
get_next_for_family_from_head(accs, act, family, model) ==
    IF Len(accs) = 0 THEN [pos |-> None, active |-> act]
    ELSE LET free == {index \in 0 .. (Len(accs) - 1) :
                        ~is_rate_limited(At(accs, index), family, model)}
         IN  IF free = {} THEN [pos |-> None, active |-> act]
             ELSE [pos |-> Some(SetMin(free)), active |-> [act EXCEPT ![family] = SetMin(free)]]

\* [pos: the position returned or None, active: the active indices afterwards]
get_next_for_family(accs, act, family, model) ==
    IF Len(accs) = 0 THEN [pos |-> None, active |-> act]
    ELSE LET n == Len(accs)
             current_index == act[family]
             free == {offset \in 0 .. (n - 1) :
                        ~is_rate_limited(At(accs, (current_index + offset) % n), family, model)}
         IN  IF free = {} THEN [pos |-> None, active |-> act]
             ELSE LET index == (current_index + SetMin(free)) % n
                  IN  [pos |-> Some(index), active |-> [act EXCEPT ![family] = index]]

get_current_or_next_for_family(accs, act, family, model, header_style) ==
    LET current == get_current_account_for_family(accs, act, family)
    IN  IF /\ ~IsNone(current)
           /\ ~is_rate_limited_for_header_style(At(accs, Val(current)), family, header_style, model)
        THEN [pos |-> current, active |-> act]
        ELSE get_next_for_family(accs, act, family, model)

\* mutant: reset_time = retry_after_ms, the current time not added: a time long past
mark_rate_limited_no_now(accs, id, retry_after_ms, family, header_style, model) ==
    LET quota_key == get_quota_key(family, header_style, model)
    IN  [i \in 1 .. Len(accs) |->
            IF accs[i].id = id
            THEN [accs[i] EXCEPT !.rate_limit_reset_times = Put(@, quota_key, 0)]
            ELSE accs[i]]

\* mutant: the reset time is written for every account of the pool
mark_rate_limited_every_account(accs, id, retry_after_ms, family, header_style, model) ==
    LET quota_key == get_quota_key(family, header_style, model)
    IN  [i \in 1 .. Len(accs) |->
            [accs[i] EXCEPT !.rate_limit_reset_times = Put(@, quota_key, retry_after_ms)]]

\* mutant: the later of the stored and the new reset time is kept
mark_rate_limited_max_merge(accs, id, retry_after_ms, family, header_style, model) ==
    LET quota_key == get_quota_key(family, header_style, model)
    IN  [i \in 1 .. Len(accs) |->
            IF accs[i].id = id
            THEN [accs[i] EXCEPT !.rate_limit_reset_times =
                     Put(@, quota_key, Max(Get(@, quota_key, 0), retry_after_ms))]
            ELSE accs[i]]

\* reset_time = now + retry_after_ms, written under the one quota key
mark_rate_limited(accs, id, retry_after_ms, family, header_style, model) ==
    LET quota_key == get_quota_key(family, header_style, model)
    IN  [i \in 1 .. Len(accs) |->
            IF accs[i].id = id
            THEN [accs[i] EXCEPT !.rate_limit_reset_times = Put(@, quota_key, retry_after_ms)]
            ELSE accs[i]]

mark_account_cooling_down(accs, id, cooldown_ms) ==
    [i \in 1 .. Len(accs) |->
        IF accs[i].id = id
        THEN [accs[i] EXCEPT !.cooling_down_until = Some(cooldown_ms)]
        ELSE accs[i]]

\* the waits one rate-limited account contributes to the minimum
AccountWaits(account, family) ==
    (IF ~IsNone(account.cooling_down_until)
     THEN {Max(0, Val(account.cooling_down_until))} ELSE {})
    \cup
    {Max(0, account.rate_limit_reset_times[key]) :
        key \in {k \in DOMAIN account.rate_limit_reset_times :
                    /\ ~(family = MODEL_FAMILY_CLAUDE /\ k[1] # "claude")
                    /\ ~(family = MODEL_FAMILY_GEMINI /\ k[1] = "claude")}}

get_min_wait_time_for_family(accs, family, model) ==
    IF \E i \in 1 .. Len(accs) : ~is_rate_limited(accs[i], family, model) THEN 0
    ELSE LET waits == UNION {AccountWaits(accs[i], family) : i \in 1 .. Len(accs)}
         IN  IF waits = {} THEN MIN_WAIT_FALLBACK_MS ELSE SetMin(waits)

\* mutant of remove_account: the active indices are left as they are
remove_account_no_clamp(accs, act, id) ==
    IF ~\E i \in 1 .. Len(accs) : accs[i].id = id
    THEN [removed |-> FALSE, accounts |-> accs, active |-> act]
    ELSE LET kept == SelectSeq(accs, LAMBDA a : a.id # id)
         IN  [removed |-> TRUE,
              accounts |-> [i \in 1 .. Len(kept) |-> [kept[i] EXCEPT !.index = i - 1]],
              active |-> act]

\* mutant of remove_account: the remaining accounts keep their old index
remove_account_no_reindex(accs, act, id) ==
    IF ~\E i \in 1 .. Len(accs) : accs[i].id = id
    THEN [removed |-> FALSE, accounts |-> accs, active |-> act]
    ELSE LET kept == SelectSeq(accs, LAMBDA a : a.id # id)
         IN  [removed |-> TRUE,
              accounts |-> kept,
              active |-> [f \in Families |->
                            IF act[f] >= Len(kept) THEN Max(0, Len(kept) - 1) ELSE act[f]]]

\* [removed, accounts, active]
remove_account(accs, act, id) ==
    IF ~\E i \in 1 .. Len(accs) : accs[i].id = id
    THEN [removed |-> FALSE, accounts |-> accs, active |-> act]
    ELSE LET kept == SelectSeq(accs, LAMBDA a : a.id # id)
             reindexed == [i \in 1 .. Len(kept) |-> [kept[i] EXCEPT !.index = i - 1]]
         IN  [removed |-> TRUE,
              accounts |-> reindexed,
              active |-> [f \in Families |->
                            IF act[f] >= Len(reindexed)
                            THEN Max(0, Len(reindexed) - 1) ELSE act[f]]]

\* Python's truth value of an Optional[str]: None and "" are false
EMPTY_STRING == << "" >>
Truthy(s) == s # None /\ s # EMPTY_STRING
\* Python's `x or y` on Optional[str]
StrOr(x, y) == IF Truthy(x) THEN x ELSE y

\* the first of a set of list positions, 0 when there is none (a search loop
\* that breaks at the first match)
FirstPos(positions) == IF positions = {} THEN 0 ELSE SetMin(positions)

\* AccountManager.ensure_account_exists: the pool afterwards; `id` is the
\* identity of the object made when an account is added
ensure_account_exists(accs, refresh_token, project_id, managed_project_id, email, now, id) ==
    LET by_token == FirstPos({i \in 1 .. Len(accs) : accs[i].refresh_token = refresh_token})
        by_email == FirstPos({i \in 1 .. Len(accs) : accs[i].email = email})
    IN  IF by_token # 0 THEN accs
        ELSE IF Truthy(email) /\ by_email # 0
        THEN [accs EXCEPT ![by_email].refresh_token = refresh_token,
                          ![by_email].project_id = StrOr(project_id, @),
                          ![by_email].managed_project_id = StrOr(managed_project_id, @)]
        ELSE Append(accs, [id |-> id, index |-> Len(accs), email |-> email,
                           refresh_token |-> refresh_token, project_id |-> project_id,
                           managed_project_id |-> managed_project_id,
                           added_at |-> now, last_used |-> now,
                           rate_limit_reset_times |-> EmptyDict,
                           cooling_down_until |-> None, consecutive_failures |-> 0])

---------------------------------------------------------------------------
(* accounts.py / storage.py: the persisted document *)

GetOpt(dict, k) == IF k \in DOMAIN dict THEN Some(dict[k]) ELSE None

to_metadata(account) ==
    [refresh_token |-> account.refresh_token,
     email |-> account.email,
     project_id |-> account.project_id,
     managed_project_id |-> account.managed_project_id,
     added_at |-> account.added_at,
     last_used |-> account.last_used,
     rate_limit_reset_times |->
        [claude |-> GetOpt(account.rate_limit_reset_times, << "claude" >>),
         gemini_antigravity |-> GetOpt(account.rate_limit_reset_times, << "gemini-antigravity" >>),
         gemini_cli |-> GetOpt(account.rate_limit_reset_times, << "gemini-cli" >>)],
     cooling_down_until |-> account.cooling_down_until]

\* the object created for storage entry `index` gets the identity index + 1
from_metadata(index, metadata) ==
    LET r == metadata.rate_limit_reset_times
        present == {k \in {<< "claude" >>, << "gemini-antigravity" >>, << "gemini-cli" >>} :
                      ~IsNone(CASE k = << "claude" >> -> r.claude
                                [] k = << "gemini-antigravity" >> -> r.gemini_antigravity
                                [] OTHER -> r.gemini_cli)}
    IN  [id |-> index + 1,
         index |-> index,
         email |-> metadata.email,
         refresh_token |-> metadata.refresh_token,
         project_id |-> metadata.project_id,
         managed_project_id |-> metadata.managed_project_id,
         added_at |-> metadata.added_at,
         last_used |-> metadata.last_used,
         rate_limit_reset_times |->
            [k \in present |-> Val(CASE k = << "claude" >> -> r.claude
                                     [] k = << "gemini-antigravity" >> -> r.gemini_antigravity
                                     [] OTHER -> r.gemini_cli)],
         cooling_down_until |-> metadata.cooling_down_until,
         consecutive_failures |-> 0]

\* AccountManager.__init__: [accounts, active]
LoadManager(storage) ==
    [accounts |-> [i \in 1 .. Len(storage.accounts) |-> from_metadata(i - 1, storage.accounts[i])],
     active |-> [f \in Families |-> storage.active_index_by_family[f]]]

\* AccountManager.save_to_disk: the document save_accounts writes
save_to_disk(accs, act) ==
    [accounts |-> [i \in 1 .. Len(accs) |-> to_metadata(accs[i])],
     active_index |-> act[MODEL_FAMILY_GEMINI],
     active_index_by_family |-> [f \in Families |-> act[f]]]

---------------------------------------------------------------------------
(* token.py *)

is_token_expired(auth) ==
    auth.access = 0 \/ auth.expires <= ACCESS_TOKEN_EXPIRY_BUFFER_MS

\* expiry of a token requested `elapsed` ms ago, as time left from now
calculate_token_expiry(elapsed, expires_in_seconds) ==
    IF expires_in_seconds <= 0 THEN 0
    ELSE Max(0, expires_in_seconds * 1000 - elapsed)

\* A stored refresh secret is a string: a sequence of character codes in which
\* that of "|" separates the fields, and "" is << >>.  An absent Optional[str]
\* is None, a present one s is Some(s).
PIPE == 124

\* str.split("|"): the fields between the separators, at least one
RECURSIVE split(_)
split(s) ==
    IF \A i \in 1 .. Len(s) : s[i] # PIPE THEN << s >>
    ELSE LET i == SetMin({j \in 1 .. Len(s) : s[j] = PIPE})
         IN  << SubSeq(s, 1, i - 1) >> \o split(SubSeq(s, i + 1, Len(s)))

parse_refresh_parts(refresh) ==
    LET parts == split(refresh)
    IN  [refresh_token |-> IF Len(parts) > 0 THEN parts[1] ELSE << >>,
         project_id |-> IF Len(parts) > 1 /\ parts[2] # << >> THEN Some(parts[2]) ELSE None,
         managed_project_id |-> IF Len(parts) > 2 /\ parts[3] # << >> THEN Some(parts[3])
                                ELSE None]

\* `s or ''` on an Optional[str]
OrEmpty(o) == IF IsNone(o) THEN << >> ELSE Val(o)

\* mutant: no empty project field is written when there is no project id
format_refresh_parts_skips_empty(parts) ==
    LET base == IF IsNone(parts.project_id) THEN parts.refresh_token
                ELSE parts.refresh_token \o << PIPE >> \o Val(parts.project_id)
    IN  IF OrEmpty(parts.managed_project_id) # << >>
        THEN base \o << PIPE >> \o Val(parts.managed_project_id)
        ELSE base

format_refresh_parts(parts) ==
    LET base == parts.refresh_token \o << PIPE >> \o OrEmpty(parts.project_id)
    IN  IF OrEmpty(parts.managed_project_id) # << >>
        THEN base \o << PIPE >> \o Val(parts.managed_project_id)
        ELSE base

\* refresh_access_token, lines 129-132 and 173-194: the AuthDetails made of a
\* token response with an access_token; new_refresh_token is the response's
\* refresh_token, None when it carries none
refresh_access_token(refresh, access_token, new_refresh_token, elapsed, expires_in) ==
    LET parts == parse_refresh_parts(refresh)
        new_parts == [refresh_token |-> IF IsNone(new_refresh_token) THEN parts.refresh_token
                                        ELSE Val(new_refresh_token),
                      project_id |-> parts.project_id,
                      managed_project_id |-> parts.managed_project_id]
    IN  [refresh |-> format_refresh_parts(new_parts),
         access |-> access_token,
         expires |-> calculate_token_expiry(elapsed, expires_in)]

---------------------------------------------------------------------------
(* client.py / service.py: what a response carries *)

\* Python's `x or default` on an Optional[int]
PyOr(o, default) == IF IsNone(o) \/ Val(o) = 0 THEN default ELSE Val(o)

\* Header values and delay strings are strings of one-character strings, ""
\* is << >>; an absent header or key is None, a present one s is Some(s).
DigitChars == << "0", "1", "2", "3", "4", "5", "6", "7", "8", "9" >>
IsDigit(c) == \E d \in 1 .. 10 : DigitChars[d] = c
DigitVal(c) == (CHOOSE d \in 1 .. 10 : DigitChars[d] = c) - 1

\* the number a string of digits writes
RECURSIVE NatOf(_)
NatOf(s) ==
    IF s = << >> THEN 0
    ELSE NatOf(SubSeq(s, 1, Len(s) - 1)) * 10 + DigitVal(s[Len(s)])

\* int(s): None stands for ValueError
IntOf(s) ==
    IF s # << >> /\ \A i \in 1 .. Len(s) : IsDigit(s[i]) THEN Some(NatOf(s)) ELSE None

\* the length of the run of digits of s that starts at position from
DigitRun(s, from) ==
    LET ends == {n \in 0 .. (Len(s) - from + 1) :
                    \A i \in from .. (from + n - 1) : IsDigit(s[i])}
    IN  CHOOSE n \in ends : \A k \in ends : k <= n

RECURSIVE Pow10(_)
Pow10(k) == IF k = 0 THEN 1 ELSE 10 * Pow10(k - 1)

\* lines 335-345 and 351-361: re.match(r"(\d+(?:\.\d+)?)(s|m|h)?", s) at the
\* start of s and int(value * factor); None when there is no match
DelayMs(s) ==
    LET n == DigitRun(s, 1)
        k == IF n + 1 <= Len(s) /\ s[n + 1] = "." THEN DigitRun(s, n + 2) ELSE 0
        end == IF k > 0 THEN n + 1 + k ELSE n
        unit == IF end + 1 <= Len(s) /\ s[end + 1] \in {"s", "m", "h"} THEN s[end + 1]
                ELSE "s"
        factor == CASE unit = "h" -> 3600 * 1000
                    [] unit = "m" -> 60 * 1000
                    [] OTHER -> 1000
        scaled == NatOf(SubSeq(s, 1, n)) * Pow10(k) + NatOf(SubSeq(s, n + 2, n + 1 + k))
    IN  IF n = 0 THEN None ELSE Some((scaled * factor) \div Pow10(k))

\* `if s:` on an Optional[str]
NonEmpty(o) == ~IsNone(o) /\ Val(o) # << >>

\* lines 331-361: what one element of error.details yields
DetailDelay(detail) ==
    IF detail.retry_info /\ ~IsNone(detail.retryDelay)
       /\ ~IsNone(DelayMs(Val(detail.retryDelay)))
    THEN DelayMs(Val(detail.retryDelay))
    ELSE IF NonEmpty(detail.quotaResetDelay)
    THEN DelayMs(Val(detail.quotaResetDelay))
    ELSE None

\* lines 330-361: the first element that yields a delay
RECURSIVE DetailsDelay(_)
DetailsDelay(details) ==
    IF details = << >> THEN None
    ELSE IF ~IsNone(DetailDelay(Head(details))) THEN DetailDelay(Head(details))
    ELSE DetailsDelay(Tail(details))

\* mutant: the retry-after header is read before retry-after-ms
parse_retry_after_seconds_first(response) ==
    IF NonEmpty(response.retry_after) /\ ~IsNone(IntOf(Val(response.retry_after)))
    THEN Some(Val(IntOf(Val(response.retry_after))) * 1000)
    ELSE IF NonEmpty(response.retry_after_ms) /\ ~IsNone(IntOf(Val(response.retry_after_ms)))
    THEN IntOf(Val(response.retry_after_ms))
    ELSE IF ~response.json THEN None
    ELSE DetailsDelay(response.details)

\* a response is its two headers, whether its body is JSON, and the
\* error.details of the body ([] when missing)
parse_retry_after(response) ==
    IF NonEmpty(response.retry_after_ms) /\ ~IsNone(IntOf(Val(response.retry_after_ms)))
    THEN IntOf(Val(response.retry_after_ms))
    ELSE IF NonEmpty(response.retry_after) /\ ~IsNone(IntOf(Val(response.retry_after)))
    THEN Some(Val(IntOf(Val(response.retry_after))) * 1000)
    ELSE IF ~response.json THEN None
    ELSE DetailsDelay(response.details)

\* 429 responses: no header and no details, a retry-after-ms header, a
\* retry-after header, a RetryInfo detail
RetryResponses ==
    {[retry_after_ms |-> None, retry_after |-> None, json |-> TRUE, details |-> << >>],
     [retry_after_ms |-> Some(<< "0" >>), retry_after |-> None, json |-> TRUE,
      details |-> << >>],
     [retry_after_ms |-> None, retry_after |-> Some(<< "5" >>), json |-> TRUE,
      details |-> << >>],
     [retry_after_ms |-> None, retry_after |-> None, json |-> TRUE,
      details |-> << [retry_info |-> TRUE, retryDelay |-> Some(<< "1", ".", "5", "m" >>),
                      quotaResetDelay |-> None] >>]}

\* what parse_retry_after finds in them: None, 0, 5000, 90000
ParsedRetryAfter == {parse_retry_after(response) : response \in RetryResponses}

\* What the upstream does with a request: HTTP 200, HTTP 429 (retry_after_ms is
\* what parse_retry_after finds in it), another client error (400), or no
\* endpoint answers (status 0)
Upstreams ==
    {[status_code |-> c, retry_after_ms |-> None] : c \in {200, 400, 0}}
    \cup {[status_code |-> 429, retry_after_ms |-> h] : h \in ParsedRetryAfter}

\* AntigravityClient.execute: the AntigravityResponse made of the upstream's answer
execute(upstream) ==
    IF upstream.status_code = 429
    THEN [success |-> FALSE, status_code |-> 429,
          error |-> << "Rate limited" >>,
          retry_after_ms |-> Some(PyOr(upstream.retry_after_ms, DEFAULT_RETRY_AFTER_MS))]
    ELSE [success |-> upstream.status_code = 200,
          status_code |-> upstream.status_code,
          error |-> CASE upstream.status_code = 200 -> None
                      [] upstream.status_code = 0 -> << "All endpoints failed" >>
                      [] OTHER -> << "HTTP", upstream.status_code >>,
          retry_after_ms |-> None]

---------------------------------------------------------------------------
(* The state after construction *)

Tasks == {"t1"}
\* the processes that run storage operations side by side
Procs == {1, 2}

\* a process outside every storage operation
IdleProc == [pc |-> "idle", calls |-> 0, storage |-> None, orphaned |-> FALSE]
\* no function is run on its own
NoEval == [fn |-> ""]
\* no execute call has been made
IdleCall == [pc |-> "idle", request |-> None, tried |-> << >>, last_error |-> None,
             response |-> None]

\* Storage documents found at start: up to MaxAccounts identities with distinct
\* emails, in-range active indices
InitMetadata(i, cooldown) ==
    [refresh_token |-> << i, 0 >>,
     email |-> << "user", i >>,
     project_id |-> None,
     managed_project_id |-> None,
     added_at |-> 0,
     last_used |-> 0,
     rate_limit_reset_times |-> [claude |-> None, gemini_antigravity |-> None, gemini_cli |-> None],
     cooling_down_until |-> cooldown]

InitDisks ==
    UNION {
        {[accounts |-> [i \in 1 .. n |-> InitMetadata(i, cool[i])],
          active_index |-> g,
          active_index_by_family |-> [f \in Families |-> g]] :
            cool \in [1 .. n -> InitCooldowns],
            g \in 0 .. Max(0, n - 1)} :
        n \in 0 .. MaxAccounts}

\* ghost: the last response of the running dispatch when it was a long 429: the
\* account and style it was sent with, the loop state and the pool at that
\* moment, and whether a token refresh has failed since
NoLast == [kind |-> "none", id |-> 0, index |-> 0, style |-> "", retries |-> 0,
           active |-> 0, cli_free |-> FALSE, n |-> 0, clean |-> FALSE, d |-> 0,
           refresh_failed |-> FALSE]

IdleTask ==
    [pc |-> "idle", calls |-> 0, model |-> << >>, family |-> "", header_style |-> "",
     retries |-> 0, max_retries |-> 0, account |-> 0, access |-> 0,
     sleep |-> 0, started |-> 0, result |-> "", wait_time_ms |-> 0]

\* selections and saves count the accounts selected and the save_to_disk calls
\* of the running dispatch (0, 1, or 2 for more)
IdleGhost ==
    [sel_limited |-> FALSE, last |-> NoLast, selections |-> 0, saves |-> 0]

Init ==
    /\ disk \in InitDisks
    /\ loaded = FALSE
    /\ accounts = << >>
    /\ active = [f \in Families |-> 0]
    /\ cache = EmptyDict
    /\ cfg \in [model : Models, quota_fallback : BOOLEAN,
                 max_rate_limit_wait_seconds : MaxWaitSeconds]
    /\ task = [t \in Tasks |-> IdleTask]
    /\ ghost = [t \in Tasks |-> IdleGhost]
    /\ marks = EmptyDict
    /\ pool_ops = 0
    /\ lock = None
    /\ proc = [p \in Procs |-> IdleProc]
    /\ torn = FALSE
    /\ call = IdleCall
    /\ eval = NoEval
    /\ orphans = EmptyDict

---------------------------------------------------------------------------
(* service.py: generate *)

Pos(accs, id) == CHOOSE i \in 1 .. Len(accs) : accs[i].id = id
InPool(accs, id) == \E i \in 1 .. Len(accs) : accs[i].id = id
Obj(accs, id) == accs[Pos(accs, id)]

\* cooperative scheduling: a coroutine runs from one await to the next, so no
\* other task steps while one stands at the head of its loop
Runnable(t) == \A u \in DOMAIN task : u # t => task[u].pc # "loop"

\* mutant: generate without the `if manager.account_count == 0` check
GenStart_NoEmptyCheck(t, model_arg, max_retries) ==
    /\ task[t].pc \in {"idle", "done"}
    /\ Runnable(t)
    /\ task[t].calls < MaxCalls
    /\ LET model == IF model_arg # << >> THEN model_arg ELSE cfg.model
           mgr == IF loaded THEN [accounts |-> accounts, active |-> active]
                  ELSE LoadManager(disk)
       IN  /\ loaded' = TRUE
           /\ accounts' = mgr.accounts
           /\ active' = mgr.active
           /\ task' = [task EXCEPT ![t] =
                [IdleTask EXCEPT
                    !.pc = "loop",
                    !.calls = task[t].calls + 1,
                    !.model = model,
                    !.family = get_model_family(model),
                    !.header_style = get_header_style_from_model(model),
                    !.max_retries = max_retries]]
           /\ ghost' = [ghost EXCEPT ![t] = IdleGhost]
    /\ UNCHANGED <<disk, cache, cfg, marks, pool_ops, lock, proc, torn, call, eval, orphans>>

\* generate, lines 178-198: resolve the model, load the manager, refuse an empty pool
GenStart(t, model_arg, max_retries) ==
    /\ task[t].pc \in {"idle", "done"}
    /\ Runnable(t)
    /\ task[t].calls < MaxCalls
    /\ LET model == IF model_arg # << >> THEN model_arg ELSE cfg.model
           mgr == IF loaded THEN [accounts |-> accounts, active |-> active]
                  ELSE LoadManager(disk)
           empty == Len(mgr.accounts) = 0
       IN  /\ loaded' = TRUE
           /\ accounts' = mgr.accounts
           /\ active' = mgr.active
           /\ task' = [task EXCEPT ![t] =
                [IdleTask EXCEPT
                    !.pc = IF empty THEN "done" ELSE "loop",
                    !.calls = task[t].calls + 1,
                    !.model = model,
                    !.family = get_model_family(model),
                    !.header_style = get_header_style_from_model(model),
                    !.max_retries = max_retries,
                    !.result = IF empty THEN "NoAccountsError" ELSE ""]]
           /\ ghost' = [ghost EXCEPT ![t] = IdleGhost]
    /\ UNCHANGED <<disk, cache, cfg, marks, pool_ops, lock, proc, torn, call, eval, orphans>>

\* line 200: `while retries < max_retries` fails; line 296
LoopExhausted(t) ==
    /\ task[t].pc = "loop"
    /\ ~(task[t].retries < task[t].max_retries)
    /\ task' = [task EXCEPT ![t].pc = "done", ![t].result = "AntigravityError"]
    /\ UNCHANGED <<disk, loaded, accounts, active, cache, cfg, ghost, marks, pool_ops, lock, proc, torn, call, eval, orphans>>

Selection(t) ==
    get_current_or_next_for_family(accounts, active, task[t].family, task[t].model,
                                   task[t].header_style)

MinWait(t) == get_min_wait_time_for_family(accounts, task[t].family, task[t].model)

\* mutant: the wait in seconds compared with the cap in milliseconds
TooLong_Seconds(wait_time) ==
    LET max_wait_ms == cfg.max_rate_limit_wait_seconds * 1000
    IN  max_wait_ms > 0 /\ (wait_time \div 1000) > max_wait_ms

TooLong(wait_time) ==
    LET max_wait_ms == cfg.max_rate_limit_wait_seconds * 1000
    IN  max_wait_ms > 0 /\ wait_time > max_wait_ms

\* lines 202-217: no account, the wait exceeds the cap
SelectNoneRaise(t) ==
    /\ task[t].pc = "loop"
    /\ task[t].retries < task[t].max_retries
    /\ IsNone(Selection(t).pos)
    /\ TooLong(MinWait(t))
    /\ active' = Selection(t).active
    /\ task' = [task EXCEPT ![t].pc = "done",
                            ![t].result = "AllAccountsRateLimitedError",
                            ![t].wait_time_ms = MinWait(t)]
    /\ UNCHANGED <<disk, loaded, accounts, cache, cfg, ghost, marks, pool_ops, lock, proc, torn, call, eval, orphans>>

\* lines 202-223: no account, sleep for the minimum wait
SelectNoneSleep(t) ==
    /\ task[t].pc = "loop"
    /\ task[t].retries < task[t].max_retries
    /\ IsNone(Selection(t).pos)
    /\ ~TooLong(MinWait(t))
    /\ active' = Selection(t).active
    /\ task' = [task EXCEPT ![t].pc = "sleeping", ![t].sleep = MinWait(t)]
    /\ UNCHANGED <<disk, loaded, accounts, cache, cfg, ghost, marks, pool_ops, lock, proc, torn, call, eval, orphans>>

Selected(t) == At(accounts, Val(Selection(t).pos))

CachedValid(account) ==
    account.index \in DOMAIN cache /\ ~is_token_expired(cache[account.index])

SelectedGhost(t) ==
    [ghost EXCEPT ![t].sel_limited =
                      is_rate_limited_for_header_style(Selected(t), task[t].family,
                                                       task[t].header_style, task[t].model),
                  ![t].selections = Min(@ + 1, 2)]

\* lines 202-250 with _get_auth_for_account lines 114-116: an account is selected,
\* its cached token is still valid, the request is sent
SelectCached(t) ==
    /\ task[t].pc = "loop"
    /\ task[t].retries < task[t].max_retries
    /\ ~IsNone(Selection(t).pos)
    /\ CachedValid(Selected(t))
    /\ active' = Selection(t).active
    /\ task' = [task EXCEPT ![t].pc = "requesting",
                            ![t].account = Selected(t).id,
                            ![t].access = cache[Selected(t).index].access]
    /\ ghost' = SelectedGhost(t)
    /\ UNCHANGED <<disk, loaded, accounts, cache, cfg, marks, pool_ops, lock, proc, torn, call, eval, orphans>>

\* lines 202-227 with _get_auth_for_account lines 114-130: an account is selected,
\* no valid cached token, the refresh request is sent
SelectRefresh(t) ==
    /\ task[t].pc = "loop"
    /\ task[t].retries < task[t].max_retries
    /\ ~IsNone(Selection(t).pos)
    /\ ~CachedValid(Selected(t))
    /\ active' = Selection(t).active
    /\ task' = [task EXCEPT ![t].pc = "refreshing",
                            ![t].account = Selected(t).id,
                            ![t].access = 0,
                            ![t].started = 0]
    /\ ghost' = SelectedGhost(t)
    /\ UNCHANGED <<disk, loaded, accounts, cache, cfg, marks, pool_ops, lock, proc, torn, call, eval, orphans>>

---------------------------------------------------------------------------
(* service.py: _get_auth_for_account after the refresh request, token.py:   *)
(* refresh_access_token.  The account a task holds is in the pool here: it  *)
(* was selected in the task's previous step.                                *)

REFRESH_TIMEOUT_MS == 30000

\* a refresh token is << owner, generation >>; the token endpoint may rotate it
Rotated(refresh_token) == << refresh_token[1], 1 - refresh_token[2] >>

\* mutant: the account keeps the formatted secret of the response
RefreshOk_KeepsFormatted(t, expires_in, rotate) ==
    /\ task[t].pc = "refreshing"
    /\ LET account == Obj(accounts, task[t].account)
           refreshed == refresh_access_token(
                            account.refresh_token, account.id,
                            IF rotate THEN Some(Rotated(account.refresh_token)) ELSE None,
                            task[t].started, expires_in)
       IN  /\ accounts' = [accounts EXCEPT ![Pos(accounts, account.id)].refresh_token =
                              refreshed.refresh]
           /\ cache' = Put(cache, account.index, refreshed)
           /\ task' = [task EXCEPT ![t].pc = "requesting",
                                   ![t].access = refreshed.access,
                                   ![t].started = 0]
    /\ UNCHANGED <<disk, loaded, active, cfg, ghost, marks, pool_ops, lock, proc, torn, call, eval, orphans>>

\* token.py lines 166-194, service.py lines 131-135 and 237-250: HTTP 200 with an
\* access_token; the account and the cache entry are updated, the request is sent
RefreshOk(t, expires_in, rotate) ==
    /\ task[t].pc = "refreshing"
    /\ LET account == Obj(accounts, task[t].account)
           refreshed == refresh_access_token(
                            account.refresh_token, account.id,
                            IF rotate THEN Some(Rotated(account.refresh_token)) ELSE None,
                            task[t].started, expires_in)
       IN  /\ accounts' = [accounts EXCEPT ![Pos(accounts, account.id)].refresh_token =
                              parse_refresh_parts(refreshed.refresh).refresh_token]
           /\ cache' = Put(cache, account.index, refreshed)
           /\ task' = [task EXCEPT ![t].pc = "requesting",
                                   ![t].access = refreshed.access,
                                   ![t].started = 0]
    /\ UNCHANGED <<disk, loaded, active, cfg, ghost, marks, pool_ops, lock, proc, torn, call, eval, orphans>>

RefreshFailedGhost(t) ==
    [ghost EXCEPT ![t].last.refresh_failed = (ghost[t].last.kind = "429long")]

\* token.py lines 152-171 and 179-180, service.py lines 136, 144, 232-235: the
\* refresh fails for another reason than invalid_grant
RefreshNone(t) ==
    /\ task[t].pc = "refreshing"
    /\ task' = [task EXCEPT ![t].pc = "loop",
                            ![t].retries = @ + 1,
                            ![t].started = 0]
    /\ ghost' = RefreshFailedGhost(t)
    /\ UNCHANGED <<disk, loaded, accounts, active, cache, cfg, marks, pool_ops, lock, proc, torn, call, eval, orphans>>

DropMarks(m, id) == [k \in {x \in DOMAIN m : x[1] # id} |-> m[k]]

\* mutant: the account is removed but the pool is not saved
RefreshRevoked_NoSave(t) ==
    /\ task[t].pc = "refreshing"
    /\ LET r == remove_account(accounts, active, task[t].account)
       IN  /\ accounts' = r.accounts
           /\ active' = r.active
    /\ task' = [task EXCEPT ![t].pc = "loop",
                            ![t].retries = @ + 1,
                            ![t].started = 0]
    /\ marks' = DropMarks(marks, task[t].account)
    /\ ghost' = RefreshFailedGhost(t)
    /\ UNCHANGED <<disk, loaded, cache, cfg, pool_ops, lock, proc, torn, call, eval, orphans>>

\* token.py lines 158-162, service.py lines 137-143 and 228-230: invalid_grant;
\* the account is removed, the pool saved, a try counted
RefreshRevoked(t) ==
    /\ task[t].pc = "refreshing"
    /\ LET r == remove_account(accounts, active, task[t].account)
       IN  /\ accounts' = r.accounts
           /\ active' = r.active
           /\ disk' = save_to_disk(r.accounts, r.active)
    /\ task' = [task EXCEPT ![t].pc = "loop",
                            ![t].retries = @ + 1,
                            ![t].started = 0]
    /\ marks' = DropMarks(marks, task[t].account)
    /\ ghost' = [RefreshFailedGhost(t) EXCEPT ![t].saves = Min(@ + 1, 2)]
    /\ UNCHANGED <<loaded, cache, cfg, pool_ops, lock, proc, torn, call, eval, orphans>>

---------------------------------------------------------------------------
(* service.py: generate, the response of generate_content *)

RetryAfter(response) == PyOr(response.retry_after_ms, DEFAULT_RETRY_AFTER_MS)

\* lines 253-261: a 429 at or under the short threshold: sleep, same loop state
On429Short(t, response) ==
    /\ task[t].pc = "requesting"
    /\ response.status_code = 429
    /\ RetryAfter(response) <= SHORT_RETRY_THRESHOLD_MS
    /\ task' = [task EXCEPT ![t].pc = "sleeping", ![t].sleep = RetryAfter(response)]
    /\ ghost' = [ghost EXCEPT ![t].last = NoLast]
    /\ UNCHANGED <<disk, loaded, accounts, active, cache, cfg, marks, pool_ops, lock, proc, torn, call, eval, orphans>>

\* mutant: the quota fallback of lines 274-280 is never taken
FallbackStyle_Never(accs, t) == None

\* lines 274-277 evaluated on the pool after the mark: the style to fall back to,
\* or None
FallbackStyle(accs, t) ==
    IF cfg.quota_fallback /\ task[t].family = MODEL_FAMILY_GEMINI
    THEN LET alt_style == get_available_header_style(Obj(accs, task[t].account),
                                                     task[t].family, task[t].model)
         IN  IF ~IsNone(alt_style) /\ Val(alt_style) # task[t].header_style
             THEN alt_style ELSE None
    ELSE None

\* lines 253-284: a longer 429: mark, save, then quota fallback or a counted try
On429Long(t, response) ==
    /\ task[t].pc = "requesting"
    /\ response.status_code = 429
    /\ ~(RetryAfter(response) <= SHORT_RETRY_THRESHOLD_MS)
    /\ LET marked == mark_rate_limited(accounts, task[t].account, RetryAfter(response),
                                       task[t].family, task[t].header_style, task[t].model)
           fallback == FallbackStyle(marked, t)
       IN  /\ accounts' = marked
           /\ disk' = save_to_disk(marked, active)
           /\ task' = [task EXCEPT
                  ![t].pc = "loop",
                  ![t].header_style = IF IsNone(fallback) THEN @ ELSE Val(fallback),
                  ![t].retries = IF IsNone(fallback) THEN @ + 1 ELSE @]
           /\ ghost' = [ghost EXCEPT
                  ![t].saves = Min(@ + 1, 2),
                  ![t].last = [kind |-> "429long",
                               id |-> task[t].account,
                               index |-> Obj(accounts, task[t].account).index,
                               style |-> task[t].header_style,
                               retries |-> task[t].retries,
                               active |-> active[task[t].family],
                               cli_free |-> ~is_rate_limited_for_header_style(
                                               Obj(marked, task[t].account), task[t].family,
                                               HEADER_STYLE_GEMINI_CLI, task[t].model),
                               n |-> Len(accounts),
                               clean |-> \A i \in 1 .. Len(accounts), k \in Styles :
                                            ~is_rate_limited_for_header_style(
                                                accounts[i], task[t].family, k, task[t].model),
                               d |-> RetryAfter(response),
                               refresh_failed |-> FALSE]]
    /\ marks' = Put(marks, << task[t].account,
                              get_quota_key(task[t].family, task[t].header_style, task[t].model) >>,
                    RetryAfter(response))
    /\ UNCHANGED <<loaded, active, cache, cfg, pool_ops, lock, proc, torn, call, eval, orphans>>

\* mutant of OnSuccess: the pool is not saved
OnSuccess_NoSave(t, response) ==
    /\ task[t].pc = "requesting"
    /\ response.status_code # 429
    /\ response.success
    /\ accounts' = [accounts EXCEPT
                       ![Pos(accounts, task[t].account)].consecutive_failures = 0]
    /\ task' = [task EXCEPT ![t].pc = "done", ![t].result = "text"]
    /\ ghost' = [ghost EXCEPT ![t].last = NoLast]
    /\ UNCHANGED <<disk, loaded, active, cache, cfg, marks, pool_ops, lock, proc, torn, call, eval, orphans>>

\* lines 287-290: success: reset the failure counter, save, return the text
OnSuccess(t, response) ==
    /\ task[t].pc = "requesting"
    /\ response.status_code # 429
    /\ response.success
    /\ LET reset == [accounts EXCEPT
                        ![Pos(accounts, task[t].account)].consecutive_failures = 0]
       IN  /\ accounts' = reset
           /\ disk' = save_to_disk(reset, active)
    /\ task' = [task EXCEPT ![t].pc = "done", ![t].result = "text"]
    /\ ghost' = [ghost EXCEPT ![t].last = NoLast, ![t].saves = Min(@ + 1, 2)]
    /\ UNCHANGED <<loaded, active, cache, cfg, marks, pool_ops, lock, proc, torn, call, eval, orphans>>

\* lines 293-294: any other failure counts a try
OnError(t, response) ==
    /\ task[t].pc = "requesting"
    /\ response.status_code # 429
    /\ ~response.success
    /\ task' = [task EXCEPT ![t].pc = "loop", ![t].retries = @ + 1]
    /\ ghost' = [ghost EXCEPT ![t].last = NoLast]
    /\ UNCHANGED <<disk, loaded, accounts, active, cache, cfg, marks, pool_ops, lock, proc, torn, call, eval, orphans>>

\* lines 222-223 and 260-261: asyncio.sleep is over, `continue`
Wake(t) ==
    /\ task[t].pc = "sleeping"
    /\ task[t].sleep = 0
    /\ task' = [task EXCEPT ![t].pc = "loop"]
    /\ UNCHANGED <<disk, loaded, accounts, active, cache, cfg, ghost, marks, pool_ops, lock, proc, torn, call, eval, orphans>>

---------------------------------------------------------------------------
(* The clock *)

AgeAccount(a, d) ==
    [a EXCEPT !.rate_limit_reset_times = [k \in DOMAIN @ |-> Age(@[k], d)],
              !.cooling_down_until = AgeOpt(@, d)]

AgeMetadata(m, d) ==
    [m EXCEPT !.rate_limit_reset_times =
                  [claude |-> AgeOpt(@.claude, d),
                   gemini_antigravity |-> AgeOpt(@.gemini_antigravity, d),
                   gemini_cli |-> AgeOpt(@.gemini_cli, d)],
              !.cooling_down_until = AgeOpt(@, d)]

\* d milliseconds pass; a refresh request ends within its 30 s timeout
Tick(d) ==
    /\ \A t \in DOMAIN task :
          /\ task[t].pc # "loop"
          /\ task[t].pc = "refreshing" => task[t].started + d <= REFRESH_TIMEOUT_MS
    /\ accounts' = [i \in 1 .. Len(accounts) |-> AgeAccount(accounts[i], d)]
    /\ disk' = [disk EXCEPT !.accounts = [i \in 1 .. Len(@) |-> AgeMetadata(@[i], d)]]
    /\ cache' = [i \in DOMAIN cache |-> [cache[i] EXCEPT !.expires = Age(@, d)]]
    /\ task' = [t \in DOMAIN task |->
                  [task[t] EXCEPT
                      !.sleep = IF task[t].pc = "sleeping" THEN Age(@, d) ELSE @,
                      !.started = IF task[t].pc = "refreshing" THEN @ + d ELSE @]]
    /\ marks' = [k \in DOMAIN marks |-> Age(marks[k], d)]
    /\ orphans' = [id \in DOMAIN orphans |-> AgeAccount(orphans[id], d)]
    /\ UNCHANGED <<loaded, active, cfg, ghost, pool_ops, lock, proc, torn, call, eval>>

---------------------------------------------------------------------------
(* The service: one task making generate() calls *)

TaskStep(t) ==
    \/ LoopExhausted(t)
    \/ SelectNoneRaise(t)
    \/ SelectNoneSleep(t)
    \/ SelectCached(t)
    \/ SelectRefresh(t)
    \/ Wake(t)
    \/ \E e \in ExpiresIn, rotate \in Rotations : RefreshOk(t, e, rotate)
    \/ RefreshNone(t)
    \/ RefreshRevoked(t)
    \/ \E upstream \in Upstreams : On429Short(t, execute(upstream))
    \/ \E upstream \in Upstreams : On429Long(t, execute(upstream))
    \/ \E upstream \in Upstreams : OnSuccess(t, execute(upstream))
    \/ \E upstream \in Upstreams : OnError(t, execute(upstream))

Next ==
    \/ \E t \in Tasks, model_arg \in ModelArgs, max_retries \in MaxRetriesArgs :
          GenStart(t, model_arg, max_retries)
    \/ \E t \in Tasks : TaskStep(t)
    \/ \E d \in TickSteps : Tick(d)

Spec == Init /\ [][Next]_vars

\* the event loop runs every ready coroutine, time passes, and every awaited
\* HTTP call ends (each has a timeout)
FairSpec ==
    /\ Spec
    /\ \A t \in Tasks : WF_vars(TaskStep(t))
    /\ WF_vars(\E d \in TickSteps : Tick(d))

---------------------------------------------------------------------------
(* The account pool on its own: an AccountManager loaded from the storage  *)
(* file, its operations called in any order with any arguments, and the    *)
(* clock.  An id that names no pooled account stands for an account object *)
(* that is not (or no longer) in the pool.                                 *)

\* retry_after_ms and cooldown_ms arguments
PoolDelays == {0, 180000}
\* model arguments: absent, or a model name
PoolModels == {<< >>, GEMINI_3_PRO}
Ids == 1 .. MaxAccounts
\* << family, header_style, model >> arguments, one triple or more per quota
\* key (for Claude the key depends on the family alone)
KeyArgs ==
    {<< MODEL_FAMILY_CLAUDE, HEADER_STYLE_ANTIGRAVITY, << >> >>}
    \cup {<< MODEL_FAMILY_GEMINI, header_style, model >> :
             header_style \in Styles, model \in PoolModels}

PoolInit ==
    /\ disk \in InitDisks
    /\ loaded = TRUE
    /\ accounts = LoadManager(disk).accounts
    /\ active = LoadManager(disk).active
    /\ cache = EmptyDict
    /\ cfg = [model |-> GEMINI_3_PRO, quota_fallback |-> TRUE, max_rate_limit_wait_seconds |-> 0]
    /\ task = [t \in Tasks |-> IdleTask]
    /\ ghost = [t \in Tasks |-> IdleGhost]
    /\ marks = EmptyDict
    /\ pool_ops = 0
    /\ lock = None
    /\ proc = [p \in Procs |-> IdleProc]
    /\ torn = FALSE
    /\ call = IdleCall
    /\ eval = NoEval
    /\ orphans = EmptyDict

PoolOp ==
    /\ pool_ops < MaxPoolOps
    /\ pool_ops' = pool_ops + 1
    /\ UNCHANGED <<disk, loaded, cache, cfg, task, ghost, lock, proc, torn, call, eval, orphans>>

PoolMarkRateLimited(id, retry_after_ms, family, header_style, model) ==
    /\ PoolOp
    /\ accounts' = mark_rate_limited(accounts, id, retry_after_ms, family, header_style, model)
    /\ marks' = IF InPool(accounts, id)
                THEN Put(marks, << id, get_quota_key(family, header_style, model) >>,
                         retry_after_ms)
                ELSE marks
    /\ UNCHANGED active

PoolMarkCoolingDown(id, cooldown_ms) ==
    /\ PoolOp
    /\ accounts' = mark_account_cooling_down(accounts, id, cooldown_ms)
    /\ UNCHANGED <<active, marks>>

PoolGetCurrentOrNext(family, model, header_style) ==
    /\ PoolOp
    /\ active' = get_current_or_next_for_family(accounts, active, family, model,
                                                header_style).active
    /\ UNCHANGED <<accounts, marks>>

PoolGetNext(family, model) ==
    /\ PoolOp
    /\ active' = get_next_for_family(accounts, active, family, model).active
    /\ UNCHANGED <<accounts, marks>>

PoolRemoveAccount(id) ==
    /\ PoolOp
    /\ LET r == remove_account(accounts, active, id)
       IN  /\ accounts' = r.accounts
           /\ active' = r.active
    /\ marks' = DropMarks(marks, id)

\* the identity of the next account object: the least one no pooled account has
NewId(accs) ==
    CHOOSE k \in 1 .. (Len(accs) + 1) :
        /\ ~InPool(accs, k)
        /\ \A j \in 1 .. (k - 1) : InPool(accs, j)

\* refresh_token, project id and email arguments: those of the first stored
\* identity and new ones, an absent and an empty email
RefreshArgs == {<< 1, 0 >>, << MaxAccounts + 1, 0 >>}
ProjectArgs == {None, << "project" >>}
EmailArgs == {None, EMPTY_STRING, << "user", 1 >>, << "user", MaxAccounts + 1 >>}
\* << refresh_token, project_id, managed_project_id, email >>: a token the pool
\* has, an email the pool has, neither
PoolEnsureArgs ==
    {<< refresh_token, None, None, email >> :
        refresh_token \in RefreshArgs, email \in {None, << "user", 1 >>}}
\* the same with an empty email and with project ids
StorageEnsureArgs ==
    PoolEnsureArgs
    \cup {<< refresh_token, None, None, EMPTY_STRING >> : refresh_token \in RefreshArgs}
    \cup {<< << MaxAccounts + 1, 0 >>, << "project" >>, << "project" >>, << "user", 1 >> >>}

\* the pool is kept to MaxAccounts accounts
PoolEnsureAccountExists(refresh_token, project_id, managed_project_id, email, now) ==
    /\ PoolOp
    /\ accounts' = ensure_account_exists(accounts, refresh_token, project_id,
                                         managed_project_id, email, now, NewId(accounts))
    /\ Len(accounts') <= MaxAccounts
    /\ UNCHANGED <<active, marks>>

PoolNext ==
    \/ \E id \in Ids, d \in PoolDelays, a \in KeyArgs :
          PoolMarkRateLimited(id, d, a[1], a[2], a[3])
    \/ \E a \in PoolEnsureArgs : PoolEnsureAccountExists(a[1], a[2], a[3], a[4], 0)
    \/ \E id \in Ids, d \in PoolDelays : PoolMarkCoolingDown(id, d)
    \/ \E a \in KeyArgs : PoolGetCurrentOrNext(a[1], a[3], a[2])
    \/ \E a \in KeyArgs : PoolGetNext(a[1], a[3])
    \/ \E id \in Ids : PoolRemoveAccount(id)
    \/ \E d \in TickSteps : Tick(d)

PoolSpec == PoolInit /\ [][PoolNext]_vars

---------------------------------------------------------------------------
(* Properties of generate, checked under Spec *)

\* the pool the service's manager holds (it is loaded on first use)
Pool == IF loaded THEN accounts ELSE LoadManager(disk).accounts

\* the accounts of a pool other than `id`, in pool order, without their index
Others(accs, id) ==
    LET rest == SelectSeq(accs, LAMBDA a : a.id # id)
    IN  [j \in 1 .. Len(rest) |-> [rest[j] EXCEPT !.index = 0]]

\* C8: generate on a service whose pool is empty raises NoAccountsError in its
\* first step: nothing is selected (the active indices are those loaded), no
\* token is refreshed or cached, no request is sent, nothing is persisted.
C8_EmptyPoolRaisesFirst ==
    [][\A t \in Tasks, model_arg \in ModelArgs, max_retries \in MaxRetriesArgs :
          (GenStart(t, model_arg, max_retries) /\ Len(Pool) = 0)
          => /\ task'[t].pc = "done"
             /\ task'[t].result = "NoAccountsError"
             /\ task'[t].account = 0
             /\ disk' = disk
             /\ cache' = cache
             /\ accounts' = << >>
             /\ active' = (IF loaded THEN active ELSE LoadManager(disk).active)]_vars

\* a generate call has ended with NoAccountsError on an empty pool
C8_Witness ==
    \E t \in Tasks :
        /\ task[t].pc = "done"
        /\ task[t].result = "NoAccountsError"
        /\ loaded
        /\ Len(accounts) = 0

\* C6: when the refresh of the selected identity answers invalid_grant, that
\* identity and no other leaves the pool (the others keep their order and
\* state), the file holds the pool without it when the step ends, one try is
\* counted and the dispatch is back at the head of its loop, where it selects
\* among the remaining identities.
C6_RevokedIdentityRemoved ==
    [][\A t \in Tasks :
          RefreshRevoked(t)
          => LET id == task[t].account
             IN  /\ InPool(accounts, id)
                 /\ ~InPool(accounts', id)
                 /\ Others(accounts', id) = Others(accounts, id)
                 /\ \A j \in 1 .. Len(accounts') : accounts'[j].index = j - 1
                 /\ Len(disk'.accounts) = Len(accounts')
                 /\ \A j \in 1 .. Len(accounts') :
                       disk'.accounts[j].refresh_token = accounts'[j].refresh_token
                 /\ \A j \in 1 .. Len(disk'.accounts) :
                       disk'.accounts[j].refresh_token # Obj(accounts, id).refresh_token
                 /\ task'[t].retries = task[t].retries + 1
                 /\ task'[t].pc = "loop"]_vars

\* the first of two identities was revoked: the second is alone in the pool and
\* in the file, one try is counted, the dispatch is about to select again
C6_Witness ==
    \E t \in Tasks :
        /\ task[t].pc = "loop"
        /\ task[t].retries = 1
        /\ task[t].max_retries > 1
        /\ Len(accounts) = 1
        /\ accounts[1].id = 2
        /\ Len(disk.accounts) = 1
        /\ disk.accounts[1].email = accounts[1].email

\* the head of the loop, no identity selectable, the minimum wait over the cap
C7_OverCap(t) ==
    /\ task[t].pc = "loop"
    /\ task[t].retries < task[t].max_retries
    /\ IsNone(Selection(t).pos)
    /\ MinWait(t) > cfg.max_rate_limit_wait_seconds * 1000

C7_RaisesAtOnce(t) ==
    /\ task'[t].pc = "done"
    /\ task'[t].result = "AllAccountsRateLimitedError"
    /\ task'[t].wait_time_ms = MinWait(t)
    /\ task'[t].sleep = 0
    /\ accounts' = accounts
    /\ disk' = disk

Resolved(upstream) ==
    IF IsNone(upstream.retry_after_ms) THEN DEFAULT_RETRY_AFTER_MS
    ELSE Val(upstream.retry_after_ms)

\* the step of generate that handles the upstream's 429
Handle429(t, upstream) ==
    /\ upstream.status_code = 429
    /\ On429Short(t, execute(upstream)) \/ On429Long(t, execute(upstream))

\* C2: a 429 whose resolved retry-after d is at most 5000 ms (0 and 5000
\* included) makes the dispatch sleep d with the same identity, style and try
\* count, the pool and the file untouched; a 429 with d over 5000 ms (60000 when
\* none is found) records reset = now + d on the identity used, under the quota
\* key of (family, style used, model), and saves the pool in the same step.
C2_RetryAfterHandling ==
    [][\A t \in Tasks, upstream \in Upstreams :
          Handle429(t, upstream)
          => LET d == Resolved(upstream)
                 quota_key == get_quota_key(task[t].family, task[t].header_style,
                                            task[t].model)
             IN  IF d <= SHORT_RETRY_THRESHOLD_MS
                 THEN /\ task'[t].pc = "sleeping"
                      /\ task'[t].sleep = d
                      /\ task'[t].account = task[t].account
                      /\ task'[t].header_style = task[t].header_style
                      /\ task'[t].retries = task[t].retries
                      /\ accounts' = accounts
                      /\ disk' = disk
                 ELSE /\ quota_key \in DOMAIN Obj(accounts', task[t].account).rate_limit_reset_times
                      /\ Obj(accounts', task[t].account).rate_limit_reset_times[quota_key] = d
                      /\ disk' = save_to_disk(accounts', active')]_vars

\* a request is in flight whose previous answer, in the same dispatch, was a
\* long 429 on the antigravity quota of a Gemini model while quota_fallback is
\* on and the identity's gemini-cli quota was free
C3_AfterFallback(t) ==
    /\ ghost[t].last.kind = "429long"
    /\ cfg.quota_fallback
    /\ task[t].family = MODEL_FAMILY_GEMINI
    /\ ghost[t].last.style = HEADER_STYLE_ANTIGRAVITY
    /\ ghost[t].last.cli_free

\* the 429 handler's own step: style rebound, no try counted, index unchanged
C3_HandlerStep ==
    \A t \in Tasks, upstream \in Upstreams :
        (/\ On429Long(t, execute(upstream))
         /\ cfg.quota_fallback
         /\ task[t].family = MODEL_FAMILY_GEMINI
         /\ task[t].header_style = HEADER_STYLE_ANTIGRAVITY
         /\ ~is_rate_limited_for_header_style(Obj(accounts', task[t].account),
                                              task[t].family, HEADER_STYLE_GEMINI_CLI,
                                              task[t].model))
        => /\ task'[t].header_style = HEADER_STYLE_GEMINI_CLI
           /\ task'[t].retries = task[t].retries
           /\ task'[t].account = task[t].account
           /\ active' = active

\* the step that sends the next request of the dispatch
C3_SendsNext(t) ==
    /\ task[t].pc # "requesting"
    /\ task'[t].pc = "requesting"
    /\ C3_AfterFallback(t)

C3_SameIdentityCli(t) ==
    /\ task'[t].account = ghost[t].last.id
    /\ task'[t].header_style = HEADER_STYLE_GEMINI_CLI
    /\ active'[task[t].family] = ghost[t].last.active
    /\ ~ghost[t].last.refresh_failed => task'[t].retries = ghost[t].last.retries

\* the request sent after the fallback is answered 200
C3_Answered200(t) ==
    /\ \E upstream \in Upstreams : OnSuccess(t, execute(upstream))
    /\ C3_AfterFallback(t)

\* the dispatch ends with the text, on the same identity, without rotating
C3_Completes(t) ==
    /\ task'[t].pc = "done"
    /\ task'[t].result = "text"
    /\ task[t].account = ghost[t].last.id
    /\ active' = active
    /\ active[task[t].family] = ghost[t].last.active

\* C3 as stated: a long 429 on the antigravity quota (quota_fallback on, Gemini
\* model, gemini-cli quota free) counts no try and leaves the family's active
\* index alone; the next request of the dispatch goes to the same identity with
\* style gemini-cli, and a 200 on it ends the dispatch without rotating.
C3_QuotaFallback ==
    [][/\ C3_HandlerStep
       /\ \A t \in Tasks : C3_SendsNext(t) => C3_SameIdentityCli(t)
       /\ \A t \in Tasks : C3_Answered200(t) => C3_Completes(t)]_vars

\* C3 amended: the same, provided the identity is still in the pool when the
\* next request is sent (its token may have to be refreshed first, and a refresh
\* answered invalid_grant evicts it: the next request then goes to another
\* identity).
C3_QuotaFallbackUnlessEvicted ==
    [][/\ C3_HandlerStep
       /\ \A t \in Tasks :
             (C3_SendsNext(t) /\ InPool(accounts', ghost[t].last.id))
             => C3_SameIdentityCli(t)
       /\ \A t \in Tasks :
             (C3_Answered200(t) /\ InPool(accounts, ghost[t].last.id))
             => C3_Completes(t)]_vars

\* the request after the fallback is in flight on the same identity with
\* gemini-cli, no try counted
C3_Witness ==
    \E t \in Tasks :
        /\ task[t].pc = "requesting"
        /\ C3_AfterFallback(t)
        /\ ~ghost[t].last.refresh_failed
        /\ task[t].account = ghost[t].last.id
        /\ task[t].header_style = HEADER_STYLE_GEMINI_CLI
        /\ task[t].retries = ghost[t].last.retries
        /\ Len(accounts) = 2

\* the scenario of C4: the request is for gemini-3-pro, the pool held two
\* identities, neither rate-limited, the active one answered 429 with
\* retry-after-ms 90000, and the next request of the dispatch is in flight
C4_NextRequest(t) ==
    /\ task[t].pc = "requesting"
    /\ task[t].model = GEMINI_3_PRO
    /\ ghost[t].last.kind = "429long"
    /\ ghost[t].last.n = 2
    /\ ghost[t].last.clean
    /\ ghost[t].last.index = ghost[t].last.active
    /\ ghost[t].last.d = 90000

\* C4: in that scenario the pool holds A's reset under the key
\* gemini-antigravity:gemini-3-pro, the next request is sent on the other
\* identity B, and the Gemini active index has moved to B.
C4_RotatesOn429 ==
    \A t \in Tasks :
        C4_NextRequest(t)
        => /\ task[t].account # ghost[t].last.id
           /\ active[MODEL_FAMILY_GEMINI] # ghost[t].last.active
           /\ InPool(accounts, ghost[t].last.id)
              => << "gemini-antigravity", GEMINI_3_PRO >>
                    \in DOMAIN Obj(accounts, ghost[t].last.id).rate_limit_reset_times

\* C5: whenever a request is in flight on identity A with style s for model m,
\* is-rate-limited-for-style(A, family, s, m) was false when A was selected.
C5_StyleFollowsQuota ==
    \A t \in Tasks : task[t].pc = "requesting" => ~ghost[t].sel_limited

\* C1: every call to generate ends: a dispatch that has started eventually
\* returns the text or raises, whatever the upstream and the token endpoint
\* answer, when every ready step is taken and time passes.
C1_GenerateTerminates ==
    \A t \in Tasks : (task[t].pc \notin {"idle", "done"}) ~> (task[t].pc = "done")

---------------------------------------------------------------------------
(* Properties of the account pool, checked under PoolSpec *)

\* C9: while less than d has passed since mark-rate-limited(i, d, family,
\* style, model), d > 0, and neither i nor that quota key of i has been operated
\* on again, is-rate-limited-for-style(i, family, style, model) is true, whatever
\* was done to other identities and to other quota keys of i.
C9_MarkedUntilReset ==
    \A k \in DOMAIN marks, a \in KeyArgs :
        (/\ marks[k] > 0
         /\ InPool(accounts, k[1])
         /\ get_quota_key(a[1], a[2], a[3]) = k[2])
        => is_rate_limited_for_header_style(Obj(accounts, k[1]), a[1], a[2], a[3])

\* half of the 180000 ms of a mark on one identity have passed, another
\* identity or another quota key of the same identity was marked since, and the
\* first mark still holds
C9_Witness ==
    \E k1, k2 \in DOMAIN marks :
        /\ marks[k1] = 90000
        /\ k2 # k1
        /\ marks[k2] = 180000
        /\ InPool(accounts, k1[1])
        /\ k1[2] = << "gemini-antigravity", GEMINI_3_PRO >>
        /\ is_rate_limited_for_header_style(Obj(accounts, k1[1]), MODEL_FAMILY_GEMINI,
                                            HEADER_STYLE_ANTIGRAVITY, GEMINI_3_PRO)

\* what mark_rate_limited may not touch in an account: all but the reset times
Frame(account) == [account EXCEPT !.rate_limit_reset_times = EmptyDict]

\* C10: mark-rate-limited(A, d, family, style, model) writes A's reset time
\* under the one quota key of (family, style, model) and nothing else: the other
\* identities, A's other quota keys, cooldown and failure counter, the pool
\* order and both active indices stay as they were.
C10_MarkFrame ==
    [][\A id \in Ids, d \in PoolDelays, a \in KeyArgs :
          PoolMarkRateLimited(id, d, a[1], a[2], a[3])
          => LET quota_key == get_quota_key(a[1], a[2], a[3])
             IN  /\ active' = active
                 /\ Len(accounts') = Len(accounts)
                 /\ \A i \in 1 .. Len(accounts) :
                       /\ Frame(accounts'[i]) = Frame(accounts[i])
                       /\ accounts[i].id # id
                          => accounts'[i] = accounts[i]
                       /\ accounts[i].id = id
                          => /\ DOMAIN accounts'[i].rate_limit_reset_times
                                  = DOMAIN accounts[i].rate_limit_reset_times \cup {quota_key}
                             /\ accounts'[i].rate_limit_reset_times[quota_key] = d
                             /\ \A q \in DOMAIN accounts[i].rate_limit_reset_times :
                                   q # quota_key
                                   => accounts'[i].rate_limit_reset_times[q]
                                          = accounts[i].rate_limit_reset_times[q]]_vars

\* one identity of two holds a mark under one quota key, its other keys and the
\* other identity hold none
C10_Witness ==
    /\ Len(accounts) = 2
    /\ DOMAIN accounts[1].rate_limit_reset_times = {<< "gemini-cli", GEMINI_3_PRO >>}
    /\ accounts[1].rate_limit_reset_times[<< "gemini-cli", GEMINI_3_PRO >>] = 180000
    /\ DOMAIN accounts[2].rate_limit_reset_times = {}
    /\ pool_ops = 1

---------------------------------------------------------------------------
(* storage.py: the operations on the storage file.  Each takes the         *)
(* document load_accounts returned and gives the document it saves.        *)

\* AccountStorage(): what `load_accounts() or AccountStorage()` is when the
\* file is missing or unreadable
EmptyStorage ==
    [accounts |-> << >>,
     active_index |-> 0,
     active_index_by_family |-> [f \in Families |-> 0]]

\* lines 336-339: `account` replaces `existing` in by_email
Newer(account, existing) ==
    \/ account.last_used > existing.last_used
    \/ account.last_used = existing.last_used /\ account.added_at > existing.added_at

\* by_email[email] after the loop, as a position of the list
Kept(accs, email) ==
    LET same == {i \in 1 .. Len(accs) : accs[i].email = email}
    IN  CHOOSE k \in same :
            /\ \A m \in same : m < k => Newer(accs[k], accs[m])
            /\ \A m \in same : m > k => ~Newer(accs[m], accs[k])

\* list(by_email.values()) + no_email: one account per email, in the order the
\* emails first occur, then the accounts without email
deduplicate_accounts_by_email(accs) ==
    LET positions == [i \in 1 .. Len(accs) |-> i]
        firsts == SelectSeq(positions,
                      LAMBDA i : /\ Truthy(accs[i].email)
                                 /\ \A j \in 1 .. (i - 1) : accs[j].email # accs[i].email)
        by_email == [n \in 1 .. Len(firsts) |-> accs[Kept(accs, accs[firsts[n]].email)]]
        no_email == SelectSeq(accs, LAMBDA a : ~Truthy(a.email))
    IN  by_email \o no_email

\* a new AccountMetadata (lines 388-395)
NewMetadata(email, refresh_token, project_id, managed_project_id, now) ==
    [refresh_token |-> refresh_token,
     email |-> email,
     project_id |-> project_id,
     managed_project_id |-> managed_project_id,
     added_at |-> now,
     last_used |-> now,
     rate_limit_reset_times |-> [claude |-> None, gemini_antigravity |-> None, gemini_cli |-> None],
     cooling_down_until |-> None]

\* mutant of add_or_update_account: an account is appended whatever the pool holds
add_or_update_account_always_append(storage, email, refresh_token, project_id, managed_project_id, now) ==
    [storage EXCEPT !.accounts = Append(@, NewMetadata(email, refresh_token, project_id,
                                                       managed_project_id, now))]

\* mutant of add_or_update_account: a matched identity is stored anew
add_or_update_account_stored_anew(storage, email, refresh_token, project_id, managed_project_id, now) ==
    LET existing_index ==
            IF Truthy(email)
            THEN FirstPos({i \in 1 .. Len(storage.accounts) :
                              storage.accounts[i].email = email})
            ELSE 0
        fresh == NewMetadata(email, refresh_token, project_id, managed_project_id, now)
        changed ==
            IF existing_index # 0
            THEN [storage.accounts EXCEPT ![existing_index] = fresh]
            ELSE Append(storage.accounts, fresh)
        deduplicated == deduplicate_accounts_by_email(changed)
    IN  [storage EXCEPT
            !.accounts = deduplicated,
            !.active_index = IF @ >= Len(deduplicated) THEN 0 ELSE @]

\* the document add_or_update_account saves
add_or_update_account(storage, email, refresh_token, project_id, managed_project_id, now) ==
    LET existing_index ==
            IF Truthy(email)
            THEN FirstPos({i \in 1 .. Len(storage.accounts) :
                              storage.accounts[i].email = email})
            ELSE 0
        changed ==
            IF existing_index # 0
            THEN [storage.accounts EXCEPT
                     ![existing_index].refresh_token = refresh_token,
                     ![existing_index].project_id = StrOr(project_id, @),
                     ![existing_index].managed_project_id = StrOr(managed_project_id, @),
                     ![existing_index].last_used = now]
            ELSE Append(storage.accounts,
                        NewMetadata(email, refresh_token, project_id, managed_project_id, now))
        deduplicated == deduplicate_accounts_by_email(changed)
    IN  [storage EXCEPT
            !.accounts = deduplicated,
            !.active_index = IF @ >= Len(deduplicated) THEN 0 ELSE @]

\* remove_account_by_email: [removed, storage]; nothing is saved when no
\* account goes
remove_account_by_email(storage, email) ==
    LET kept == SelectSeq(storage.accounts, LAMBDA a : a.email # email)
    IN  IF Len(kept) = Len(storage.accounts)
        THEN [removed |-> FALSE, storage |-> storage]
        ELSE [removed |-> TRUE,
              storage |-> [storage EXCEPT
                              !.accounts = kept,
                              !.active_index = IF @ >= Len(kept)
                                               THEN Max(0, Len(kept) - 1) ELSE @]]

\* set_active_account: [ok, storage]
set_active_account(storage, index) ==
    IF index < 0 \/ index >= Len(storage.accounts)
    THEN [ok |-> FALSE, storage |-> storage]
    ELSE [ok |-> TRUE,
          storage |-> [storage EXCEPT
                          !.active_index = index,
                          !.active_index_by_family = [f \in Families |-> index]]]

---------------------------------------------------------------------------
(* The storage operations and the pool operations that add and remove      *)
(* identities, called in any order with any arguments.  The clock is the   *)
(* number of the operation.                                                *)

StorageOp ==
    /\ pool_ops < MaxPoolOps
    /\ pool_ops' = pool_ops + 1
    /\ UNCHANGED <<loaded, accounts, active, cache, cfg, task, ghost, marks,
                   lock, proc, torn, call, eval, orphans>>

\* the file is kept to MaxAccounts identities
AddOrUpdateAccount(email, refresh_token, project_id, managed_project_id) ==
    /\ StorageOp
    /\ disk' = add_or_update_account(disk, email, refresh_token, project_id,
                                     managed_project_id, pool_ops + 1)
    /\ Len(disk'.accounts) <= MaxAccounts

RemoveAccountByEmail(email) ==
    /\ StorageOp
    /\ disk' = remove_account_by_email(disk, email).storage

SetActiveAccount(index) ==
    /\ StorageOp
    /\ disk' = set_active_account(disk, index).storage

StorageNext ==
    \/ \E email \in EmailArgs, refresh_token \in RefreshArgs,
          project_id \in ProjectArgs, managed_project_id \in ProjectArgs :
          AddOrUpdateAccount(email, refresh_token, project_id, managed_project_id)
    \/ \E email \in EmailArgs : RemoveAccountByEmail(email)
    \/ \E index \in -1 .. MaxAccounts : SetActiveAccount(index)
    \/ \E a \in StorageEnsureArgs :
          PoolEnsureAccountExists(a[1], a[2], a[3], a[4], pool_ops + 1)
    \/ \E id \in Ids : PoolRemoveAccount(id)

StorageSpec == PoolInit /\ [][StorageNext]_vars

---------------------------------------------------------------------------
(* Properties of the stored and the pooled identities, checked under       *)
(* StorageSpec                                                             *)

\* no two entries of a list of identities carry the same email, the emails
\* of `exempt` apart
UniqueEmails(accs, exempt) ==
    \A i, j \in 1 .. Len(accs) :
        (accs[i].email \notin exempt /\ accs[i].email = accs[j].email) => i = j

\* C11 as stated: after any sequence of add-or-update, remove-by-email and
\* set-active on the storage file, and of ensure_account_exists and
\* remove_account on the pool in memory, no two distinct identities carry the
\* same non-null email
C11_EmailUnique ==
    /\ UniqueEmails(disk.accounts, {None})
    /\ UniqueEmails(accounts, {None})

\* C11 amended: ... no two distinct identities carry the same non-empty email
\* (the empty string counts as no email, as None does)
C11_NonEmptyEmailUnique ==
    /\ UniqueEmails(disk.accounts, {None, EMPTY_STRING})
    /\ UniqueEmails(accounts, {None, EMPTY_STRING})

\* an email the file and the pool already held was given again with a new
\* refresh token: the stored identity was updated in place, and so was the
\* pooled one
C11_Witness ==
    /\ \E i \in 1 .. Len(disk.accounts) :
          /\ disk.accounts[i].email = << "user", 1 >>
          /\ disk.accounts[i].refresh_token = << MaxAccounts + 1, 0 >>
          /\ disk.accounts[i].added_at = 0
          /\ disk.accounts[i].last_used > 0
    /\ \E i \in 1 .. Len(accounts) :
          /\ accounts[i].email = << "user", 1 >>
          /\ accounts[i].refresh_token = << MaxAccounts + 1, 0 >>
          /\ accounts[i].added_at = 0

---------------------------------------------------------------------------
(* Properties of the pool in memory, checked under PoolSpec *)

\* C12: starting from a non-empty pool with in-range indices, after any
\* sequence of get_current_or_next_for_family, get_next_for_family,
\* mark_rate_limited, mark_account_cooling_down, ensure_account_exists and
\* remove_account, every family's active index is in [0, len) whenever the pool
\* is non-empty
C12_ActiveInRange ==
    Len(accounts) > 0 => \A f \in Families : active[f] \in 0 .. (Len(accounts) - 1)

\* the first of two accounts was removed: the second is alone in the pool, at
\* index 0, and both active indices point at it
C12_Witness ==
    /\ Len(accounts) = 1
    /\ accounts[1].id = 2
    /\ accounts[1].index = 0
    /\ \A f \in Families : active[f] = 0

\* C13: after any sequence of add-or-update, remove-by-email and set-active,
\* whenever the stored pool is non-empty activeIndex and both entries of
\* activeIndexByFamily are in [0, len), so that an AccountManager loaded from
\* the file starts with in-range indices
C13_StoredIndicesInRange ==
    Len(disk.accounts) > 0 =>
        /\ disk.active_index \in 0 .. (Len(disk.accounts) - 1)
        /\ \A f \in Families :
              /\ disk.active_index_by_family[f] \in 0 .. (Len(disk.accounts) - 1)
              /\ LoadManager(disk).active[f] \in 0 .. (Len(LoadManager(disk).accounts) - 1)

\* a storage document with every last_used blanked
UpToLastUsed(storage) ==
    [storage EXCEPT !.accounts = [i \in 1 .. Len(@) |-> [@[i] EXCEPT !.last_used = 0]]]

\* this step is add_or_update_account with these arguments, and the same call
\* made again on the file it saved would save the same identities in the same
\* order with the same fields and indices, up to last_used
C14_SecondCallSame(email, refresh_token, project_id, managed_project_id) ==
    (/\ pool_ops' = pool_ops + 1
     /\ accounts' = accounts
     /\ disk' = add_or_update_account(disk, email, refresh_token, project_id,
                                      managed_project_id, pool_ops + 1))
    => UpToLastUsed(add_or_update_account(disk', email, refresh_token, project_id,
                                          managed_project_id, pool_ops + 2))
       = UpToLastUsed(disk')

\* C14 as stated: add-or-update is idempotent for every pool state and every
\* argument tuple (email, refresh secret, project id, managed-project id)
C14_Idempotent ==
    [][\A email \in EmailArgs, refresh_token \in RefreshArgs,
          project_id \in ProjectArgs, managed_project_id \in ProjectArgs :
          C14_SecondCallSame(email, refresh_token, project_id, managed_project_id)]_vars

\* C14 amended: add-or-update is idempotent for every pool state and every
\* argument tuple whose email is a non-empty string
C14_IdempotentWithEmail ==
    [][\A email \in EmailArgs, refresh_token \in RefreshArgs,
          project_id \in ProjectArgs, managed_project_id \in ProjectArgs :
          Truthy(email) =>
             C14_SecondCallSame(email, refresh_token, project_id, managed_project_id)]_vars

\* add-or-update was called twice with the email of a stored identity and a
\* new refresh token and project id: one identity holds them, touched by the
\* second call
C14_Witness ==
    /\ pool_ops = 2
    /\ \E i \in 1 .. Len(disk.accounts) :
          /\ disk.accounts[i].email = << "user", 1 >>
          /\ disk.accounts[i].refresh_token = << MaxAccounts + 1, 0 >>
          /\ disk.accounts[i].project_id = << "project" >>
          /\ disk.accounts[i].added_at = 0
          /\ disk.accounts[i].last_used = 2
          /\ \A j \in 1 .. Len(disk.accounts) : disk.accounts[j].email = << "user", 1 >> => j = i

---------------------------------------------------------------------------
(* storage.py run by several processes: each process p calls               *)
(* add_or_update_account with an email and a refresh token of its own.     *)
(* The steps are those of load_accounts and save_accounts: taking the lock *)
(* file (or giving up after the 10 s timeout while another process holds   *)
(* it), reading, renaming the temp file over the storage file, and, on the *)
(* timeout path, opening the storage file for writing and closing it.      *)
(* The platform is one where rename replaces the target.                   *)

EmailOf(p) == << "user", MaxAccounts + p >>
RefreshOf(p) == << MaxAccounts + p, 0 >>

ProcFrame == UNCHANGED <<loaded, accounts, active, cache, cfg, task, ghost, marks,
                         pool_ops, call, eval, orphans>>

\* add_or_update_account is called (line 367); load_accounts makes its FileLock
AouStart(p) ==
    /\ proc[p].pc = "idle"
    /\ proc[p].calls < MaxCalls
    /\ proc' = [proc EXCEPT ![p].pc = "load_acquire", ![p].calls = @ + 1,
                            ![p].storage = None, ![p].orphaned = FALSE]
    /\ UNCHANGED <<disk, lock, torn>>
    /\ ProcFrame

\* load_accounts line 242: `with lock:` entered
LoadLocked(p) ==
    /\ proc[p].pc = "load_acquire"
    /\ lock = None
    /\ lock' = Some(p)
    /\ proc' = [proc EXCEPT ![p].pc = "load_read"]
    /\ UNCHANGED <<disk, torn>>
    /\ ProcFrame

\* load_accounts line 244: Timeout, another process kept the lock for 10 s
LoadTimeout(p) ==
    /\ proc[p].pc = "load_acquire"
    /\ lock # None
    /\ proc' = [proc EXCEPT ![p].pc = "load_read"]
    /\ UNCHANGED <<disk, lock, torn>>
    /\ ProcFrame

\* load_accounts_unsafe: the document, or None when the file does not parse;
\* leaving `with lock:` releases the lock
LoadRead(p) ==
    /\ proc[p].pc = "load_read"
    /\ proc' = [proc EXCEPT ![p].pc = "loaded",
                            ![p].storage = IF torn THEN None ELSE Some(disk)]
    /\ lock' = IF lock = Some(p) THEN None ELSE lock
    /\ UNCHANGED <<disk, torn>>
    /\ ProcFrame

\* add_or_update_account lines 368-402 on the loaded document; save_accounts
\* makes its FileLock
Modify(p) ==
    /\ proc[p].pc = "loaded"
    /\ LET storage == IF IsNone(proc[p].storage) THEN EmptyStorage ELSE Val(proc[p].storage)
       IN  proc' = [proc EXCEPT
                       ![p].pc = "save_acquire",
                       ![p].storage = Some(add_or_update_account(storage, EmailOf(p),
                                                RefreshOf(p), None, None, 0))]
    /\ UNCHANGED <<disk, lock, torn>>
    /\ ProcFrame

\* save_accounts line 264: `with lock:` entered
SaveLocked(p) ==
    /\ proc[p].pc = "save_acquire"
    /\ lock = None
    /\ lock' = Some(p)
    /\ proc' = [proc EXCEPT ![p].pc = "save_temp"]
    /\ UNCHANGED <<disk, torn>>
    /\ ProcFrame

\* save_accounts line 284: Timeout
SaveTimeout(p) ==
    /\ proc[p].pc = "save_acquire"
    /\ lock # None
    /\ proc' = [proc EXCEPT ![p].pc = "save_direct"]
    /\ UNCHANGED <<disk, lock, torn>>
    /\ ProcFrame

\* save_accounts lines 267-277: the temp file is written and renamed over the
\* storage file; a process that has the old file open for writing keeps
\* writing to a file that has no name any more; the lock is released
SaveRename(p) ==
    /\ proc[p].pc = "save_temp"
    /\ disk' = Val(proc[p].storage)
    /\ torn' = FALSE
    /\ lock' = None
    /\ proc' = [q \in Procs |->
                  IF q = p THEN [proc[q] EXCEPT !.pc = "idle"]
                  ELSE IF proc[q].pc = "save_writing" THEN [proc[q] EXCEPT !.orphaned = TRUE]
                  ELSE proc[q]]
    /\ ProcFrame

\* save_accounts line 286: open(storage_path, "w") truncates the storage file
SaveDirectOpen(p) ==
    /\ proc[p].pc = "save_direct"
    /\ torn' = TRUE
    /\ proc' = [proc EXCEPT ![p].pc = "save_writing", ![p].orphaned = FALSE]
    /\ UNCHANGED <<disk, lock>>
    /\ ProcFrame

\* save_accounts line 287: json.dump is through and the file is closed
SaveDirectClose(p) ==
    /\ proc[p].pc = "save_writing"
    /\ IF proc[p].orphaned
       THEN UNCHANGED <<disk, torn>>
       ELSE /\ disk' = Val(proc[p].storage)
            /\ torn' = \E q \in Procs \ {p} :
                          proc[q].pc = "save_writing" /\ ~proc[q].orphaned
    /\ proc' = [proc EXCEPT ![p].pc = "idle"]
    /\ UNCHANGED lock
    /\ ProcFrame

ProcStep(p) ==
    \/ AouStart(p)
    \/ LoadLocked(p)
    \/ LoadTimeout(p)
    \/ LoadRead(p)
    \/ Modify(p)
    \/ SaveLocked(p)
    \/ SaveTimeout(p)
    \/ SaveRename(p)
    \/ SaveDirectOpen(p)
    \/ SaveDirectClose(p)

LockNext == \E p \in Procs : ProcStep(p)

LockSpec == PoolInit /\ [][LockNext]_vars

---------------------------------------------------------------------------
(* Properties of the storage file under concurrent processes, checked      *)
(* under LockSpec                                                          *)

\* process p is inside a read-modify-write: it has started to read and has
\* not finished writing
InReadModifyWrite(p) ==
    proc[p].pc \in {"load_read", "loaded", "save_acquire", "save_temp", "save_direct",
                    "save_writing"}

\* from its read to the end of its write a process holds the lock
C15_OneAcquisition ==
    \A p \in Procs : InReadModifyWrite(p) => lock = Some(p)

\* once every process has made a call and is through, every process's email
\* is in the stored pool
C15_NoLostUpdate ==
    (\A p \in Procs : proc[p].pc = "idle" /\ proc[p].calls > 0)
    => \A p \in Procs : \E i \in 1 .. Len(disk.accounts) : disk.accounts[i].email = EmailOf(p)

\* C15: every read-modify-write on the storage file runs its read, its
\* modification and its write under one acquisition of the lock, so two
\* concurrent add-or-update calls with distinct emails both end up in the
\* stored pool
C15_ReadModifyWriteLocked ==
    /\ C15_OneAcquisition
    /\ C15_NoLostUpdate

\* process p is writing the storage file: its temp file is being written and
\* renamed, or it has the file itself open for writing
Writing(p) == proc[p].pc \in {"save_temp", "save_writing"}

\* every write happens while the writer holds the lock
C16_WriterHoldsLock == \A p \in Procs : Writing(p) => lock = Some(p)

\* no two processes write at once
C16_OneWriter == \A p, q \in Procs : (Writing(p) /\ Writing(q)) => p = q

\* the file changes by rename only: it is never partly written
C16_WholeFile == ~torn

\* a reader never gets a partly written document
C16_ReaderSeesWhole == \A p \in Procs : proc[p].pc = "loaded" => ~IsNone(proc[p].storage)

\* C16: every write by save happens while the writer holds the lock and by
\* rename of a fully written temp sibling, so no two processes write at once
\* and a reader never observes a partly written document
C16_AtomicLockedWrites ==
    /\ C16_WriterHoldsLock
    /\ C16_OneWriter
    /\ C16_WholeFile
    /\ C16_ReaderSeesWhole

---------------------------------------------------------------------------
(* client.py: one generate_content call, endpoint by endpoint.  A URL is   *)
(* << endpoint, path >>.  What an endpoint does with a request is an       *)
(* answer: an HTTP response (status, `retry-after-ms` header, and a body   *)
(* that is JSON, text that is not JSON, or empty), a timeout, or another   *)
(* transport error.                                                        *)

ANTIGRAVITY_ENDPOINT_DAILY == "https://daily-cloudcode-pa.sandbox.googleapis.com"
ANTIGRAVITY_ENDPOINT_AUTOPUSH == "https://autopush-cloudcode-pa.sandbox.googleapis.com"
ANTIGRAVITY_ENDPOINT_PROD == "https://cloudcode-pa.googleapis.com"
ANTIGRAVITY_ENDPOINT_FALLBACKS ==
    << ANTIGRAVITY_ENDPOINT_DAILY, ANTIGRAVITY_ENDPOINT_AUTOPUSH, ANTIGRAVITY_ENDPOINT_PROD >>
GEMINI_CLI_ENDPOINT == ANTIGRAVITY_ENDPOINT_PROD

\* the statuses after which execute goes to the next endpoint (line 512)
ServerErrors == {403, 404, 500, 502, 503, 504}
Bodies == {"json", "text", ""}

Answers ==
    {[kind |-> "response", status_code |-> c, retry_after_ms |-> None, body |-> b] :
        c \in {200, 400}, b \in Bodies}
    \cup {[kind |-> "response", status_code |-> c, retry_after_ms |-> None, body |-> "json"] :
             c \in ServerErrors}
    \cup {[kind |-> "response", status_code |-> 429, retry_after_ms |-> h, body |-> b] :
             h \in ParsedRetryAfter, b \in Bodies}
    \cup {[kind |-> k, status_code |-> 0, retry_after_ms |-> None, body |-> ""] :
             k \in {"timeout", "error"}}

\* header_style arguments of generate_content: absent, or a style
StyleArgs == {""} \cup Styles

\* prepare_request, lines 209-226 and 287-298: the URL, and what execute reads
\* of the request
prepare_request(model, header_style, streaming) ==
    LET effective_header_style ==
            IF header_style # "" THEN header_style ELSE get_header_style_from_model(model)
        effective_endpoint ==
            IF effective_header_style = HEADER_STYLE_GEMINI_CLI
            THEN GEMINI_CLI_ENDPOINT
            ELSE ANTIGRAVITY_ENDPOINT_FALLBACKS[1]
    IN  [url |-> << effective_endpoint,
                    IF streaming THEN "/v1internal:streamGenerateContent?alt=sse"
                    ELSE "/v1internal:generateContent" >>,
         header_style |-> effective_header_style,
         streaming |-> streaming,
         endpoint |-> effective_endpoint]

\* execute, lines 483-487: the first known endpoint found in the URL is
\* replaced by `endpoint`
ReplaceEndpoint(url, endpoint) ==
    LET known == ANTIGRAVITY_ENDPOINT_FALLBACKS \o << GEMINI_CLI_ENDPOINT >>
        found == {n \in 1 .. Len(known) : \E i \in 1 .. Len(url) : url[i] = known[n]}
    IN  IF found = {} THEN url
        ELSE LET ep == known[SetMin(found)]
             IN  [i \in 1 .. Len(url) |-> IF url[i] = ep THEN endpoint ELSE url[i]]

\* response.json() raises on a body that is not JSON; `if response.text`
\* skips it on an empty body
JsonRaises(answer) == answer.body = "text"

\* one pass of the loop of execute, lines 489-536: [returned, response] when
\* the pass returns, [returned, last_error] when it goes on
TryEndpoint(request, answer) ==
    IF answer.kind = "timeout"
    THEN [returned |-> FALSE, last_error |-> << "Request timed out" >>]
    ELSE IF answer.kind = "error"
    THEN [returned |-> FALSE, last_error |-> << "error" >>]
    ELSE IF answer.status_code = 429
    THEN IF JsonRaises(answer)
         THEN [returned |-> FALSE, last_error |-> << "JSONDecodeError" >>]
         ELSE [returned |-> TRUE, response |-> execute(answer)]
    ELSE IF answer.status_code \in ServerErrors
    THEN [returned |-> FALSE, last_error |-> << "HTTP", answer.status_code >>]
    ELSE IF ~request.streaming /\ JsonRaises(answer)
    THEN [returned |-> FALSE, last_error |-> << "JSONDecodeError" >>]
    ELSE [returned |-> TRUE, response |-> execute(answer)]

\* lines 538-545: no endpoint is left
AllEndpointsFailed(last_error) ==
    [success |-> FALSE, status_code |-> 0,
     error |-> IF IsNone(last_error) THEN << "All endpoints failed" >> ELSE last_error,
     retry_after_ms |-> None]

ClientFrame == UNCHANGED <<disk, loaded, accounts, active, cache, cfg, task, ghost, marks,
                           pool_ops, lock, proc, torn, eval, orphans>>

\* generate_content, lines 572-583
GenerateContent(model, header_style, streaming) ==
    /\ call.pc = "idle"
    /\ call' = [call EXCEPT !.pc = "executing",
                            !.request = prepare_request(model, header_style, streaming)]
    /\ ClientFrame

\* the next endpoint of the list is sent the request and gives `answer`;
\* tried lists the URLs requested so far with their answers
ExecuteStep(answer) ==
    /\ call.pc = "executing"
    /\ LET endpoint == ANTIGRAVITY_ENDPOINT_FALLBACKS[Len(call.tried) + 1]
           url == ReplaceEndpoint(call.request.url, endpoint)
           r == TryEndpoint(call.request, answer)
           tried == Append(call.tried, [url |-> url, answer |-> answer])
       IN  call' =
              IF r.returned
              THEN [call EXCEPT !.pc = "returned", !.tried = tried,
                                !.response = Some(r.response)]
              ELSE IF Len(tried) = Len(ANTIGRAVITY_ENDPOINT_FALLBACKS)
              THEN [call EXCEPT !.pc = "returned", !.tried = tried,
                                !.last_error = r.last_error,
                                !.response = Some(AllEndpointsFailed(r.last_error))]
              ELSE [call EXCEPT !.tried = tried, !.last_error = r.last_error]
    /\ ClientFrame

ClientNext ==
    \/ \E model \in Models, header_style \in StyleArgs, streaming \in BOOLEAN :
          GenerateContent(model, header_style, streaming)
    \/ \E answer \in Answers : ExecuteStep(answer)

ClientSpec == PoolInit /\ [][ClientNext]_vars

---------------------------------------------------------------------------
(* Properties of execute, checked under ClientSpec *)

\* the answers after which the next endpoint may be tried
MovesOn(answer) ==
    \/ answer.kind \in {"timeout", "error"}
    \/ answer.kind = "response" /\ answer.status_code \in ServerErrors

\* the i-th request was the last one and its answer is what execute returned
ReturnedAt(i) ==
    /\ i = Len(call.tried)
    /\ call.pc = "returned"
    /\ Val(call.response).status_code = call.tried[i].answer.status_code

\* C17: execute tries the endpoints in the order daily, autopush, prod, each at
\* most once; it moves to the next endpoint only after a 403, 404, 500, 502,
\* 503 or 504 or a network or timeout error; a 200 or any other 4xx is
\* returned at once; when all three fail it returns a failure result (success
\* false, status 0, the last error) and does not raise
C17_EndpointFallback ==
    LET n == Len(call.tried)
    IN  /\ n <= Len(ANTIGRAVITY_ENDPOINT_FALLBACKS)
        /\ \A i \in 1 .. n :
              /\ call.tried[i].url[1] = ANTIGRAVITY_ENDPOINT_FALLBACKS[i]
              /\ (i < n \/ call.pc = "executing") => MovesOn(call.tried[i].answer)
              /\ ~MovesOn(call.tried[i].answer) => ReturnedAt(i)
        /\ (call.pc = "returned" /\ MovesOn(call.tried[n].answer)) =>
              /\ n = Len(ANTIGRAVITY_ENDPOINT_FALLBACKS)
              /\ ~Val(call.response).success
              /\ Val(call.response).status_code = 0
              /\ Val(call.response).error = call.last_error

\* C18: a 429 from any endpoint ends the endpoint fallback: execute returns at
\* once a 429 result that carries the resolved retry-after, 60000 ms when none
\* can be resolved, and no further endpoint is tried
C18_429ShortCircuits ==
    \A i \in 1 .. Len(call.tried) :
        (call.tried[i].answer.kind = "response" /\ call.tried[i].answer.status_code = 429)
        => /\ ReturnedAt(i)
           /\ ~Val(call.response).success
           /\ Val(call.response).retry_after_ms = Some(Resolved(call.tried[i].answer))

\* C19: the first endpoint a request is sent to follows its style, prod for
\* gemini-cli and daily for antigravity, and the other two endpoints are
\* contacted only after a transport or server error
C19_FirstEndpointByStyle ==
    /\ Len(call.tried) >= 1 =>
          call.tried[1].url[1] =
             IF call.request.header_style = HEADER_STYLE_GEMINI_CLI
             THEN ANTIGRAVITY_ENDPOINT_PROD
             ELSE ANTIGRAVITY_ENDPOINT_DAILY
    /\ \A i \in 2 .. Len(call.tried) : MovesOn(call.tried[i - 1].answer)

---------------------------------------------------------------------------
(* The happy path of generate, checked under Spec *)

\* task t's dispatch ends with this step, on a 200 to the first request sent
\* to the first account it selected
C20_FirstAnswer200(t) ==
    /\ task[t].pc = "requesting"
    /\ ghost[t].selections = 1
    /\ task'[t].pc = "done"
    /\ task'[t].result = "text"

\* C20: when the first selected identity answers 200 on the first attempt, its
\* consecutive_failures is 0 afterwards and the pool is persisted exactly once
\* during the dispatch: nothing is saved before the response, and the pool as
\* it is after the response is in the file when generate returns
C20_HappyPathPersistsOnce ==
    [][\A t \in Tasks :
          C20_FirstAnswer200(t) =>
             /\ InPool(accounts', task[t].account)
             /\ Obj(accounts', task[t].account).consecutive_failures = 0
             /\ ghost[t].saves = 0
             /\ ghost'[t].saves = 1
             /\ disk' = save_to_disk(accounts', active')]_vars

\* a dispatch selected one account, refreshed its token, got a 200 and is
\* done, with one save
C20_Witness ==
    \E t \in Tasks :
        /\ task[t].pc = "done"
        /\ task[t].result = "text"
        /\ ghost[t].selections = 1
        /\ ghost[t].saves = 1
        /\ Len(accounts) = MaxAccounts
        /\ disk = save_to_disk(accounts, active)

---------------------------------------------------------------------------
(* The dispatch with a token endpoint that rotates refresh tokens, over     *)
(* identities that carry project ids                                        *)

\* the first stored identity has a project id and a managed project id; the
\* service has its default quota_fallback and a positive wait cap
WithProjects(storage) ==
    [storage EXCEPT !.accounts =
        [i \in 1 .. Len(@) |->
            IF i = 1 THEN [@[i] EXCEPT !.project_id = << "project" >>,
                                       !.managed_project_id = << "managed" >>]
            ELSE @[i]]]

RotInit ==
    /\ disk \in {WithProjects(d) : d \in InitDisks}
    /\ loaded = FALSE
    /\ accounts = << >>
    /\ active = [f \in Families |-> 0]
    /\ cache = EmptyDict
    /\ cfg \in [model : Models, quota_fallback : {TRUE},
                 max_rate_limit_wait_seconds : {60}]
    /\ task = [t \in Tasks |-> IdleTask]
    /\ ghost = [t \in Tasks |-> IdleGhost]
    /\ marks = EmptyDict
    /\ pool_ops = 0
    /\ lock = None
    /\ proc = [p \in Procs |-> IdleProc]
    /\ torn = FALSE
    /\ call = IdleCall
    /\ eval = NoEval
    /\ orphans = EmptyDict

RotNext ==
    \/ Next
    \/ \E t \in Tasks, e \in ExpiresIn : RefreshOk(t, e, TRUE)

RotSpec == RotInit /\ [][RotNext]_vars

\* the step is a successful refresh for identity id whose response carries a
\* new refresh_token
RotationOf(id) ==
    \E t \in Tasks, e \in ExpiresIn : task[t].account = id /\ RefreshOk(t, e, TRUE)

\* the cache entry under the identity's index is the one made of the response
FreshEntry(account) ==
    /\ account.index \in DOMAIN cache'
    /\ cache'[account.index].access = account.id
    /\ parse_refresh_parts(cache'[account.index].refresh).refresh_token = account.refresh_token
    /\ \E t \in Tasks, e \in ExpiresIn :
          cache'[account.index].expires = calculate_token_expiry(task[t].started, e)

\* C21: a successful refresh that returns a new refresh_token makes it the
\* identity's refresh token, leaves the identity's project id, managed project
\* id and email as they are and replaces the identity's token-cache entry in
\* the same step; in every other step the refresh token of an identity that
\* stays in the pool does not change.
C21_RefreshTokenRotation ==
    [][\A id \in Ids :
          (InPool(accounts, id) /\ InPool(accounts', id)) =>
             LET a == Obj(accounts, id)
                 b == Obj(accounts', id)
             IN  IF RotationOf(id)
                 THEN /\ b.refresh_token = Rotated(a.refresh_token)
                      /\ b.refresh_token # a.refresh_token
                      /\ b.project_id = a.project_id
                      /\ b.managed_project_id = a.managed_project_id
                      /\ b.email = a.email
                      /\ FreshEntry(b)
                 ELSE b.refresh_token = a.refresh_token]_vars

\* the identity with project ids holds a rotated refresh token and is in the pool
C21_Witness ==
    \E i \in 1 .. Len(accounts) :
        /\ accounts[i].refresh_token = << accounts[i].id, 1 >>
        /\ accounts[i].project_id = << "project" >>
        /\ accounts[i].managed_project_id = << "managed" >>
        /\ accounts[i].index \in DOMAIN cache
        /\ cache[accounts[i].index].access = accounts[i].id

---------------------------------------------------------------------------
(* Two generate() coroutines on one event loop sharing the AccountManager.  *)
(* A coroutine runs (pc "loop") from the await that resumed it to its next  *)
(* await (pc "awaiting": a token refresh, a request or a sleep in flight);  *)
(* the event loop resumes a coroutine only while every other one is         *)
(* suspended.  The pool operations are plain `def` methods: a call is       *)
(* entered (pc "in_op") and returns, with no await in its body.  ghost[t]   *)
(* holds the call a coroutine is in, the pool it found on entry and whether *)
(* it has returned from a call before.                                      *)

ConcTasks == {"t1", "t2"}

ConcKeyArgs ==
    {<< MODEL_FAMILY_CLAUDE, HEADER_STYLE_ANTIGRAVITY, << >> >>,
     << MODEL_FAMILY_GEMINI, HEADER_STYLE_ANTIGRAVITY, GEMINI_3_PRO >>}

\* the calls generate makes: service.py lines 141, 202 and 264, and
\* mark_account_cooling_down
ConcCalls ==
    {[name |-> "mark_rate_limited", id |-> id, ms |-> 180000, key |-> a] :
        id \in Ids, a \in ConcKeyArgs}
    \cup {[name |-> "mark_account_cooling_down", id |-> id, ms |-> 180000,
           key |-> << >>] : id \in Ids}
    \cup {[name |-> "get_current_or_next_for_family", id |-> 0, ms |-> 0, key |-> a] :
             a \in ConcKeyArgs}
    \cup {[name |-> "remove_account", id |-> id, ms |-> 0, key |-> << >>] : id \in Ids}

NoCall == [name |-> "", id |-> 0, ms |-> 0, key |-> << >>]

\* the pool [accounts, active] a call leaves when it runs on pool
Returned(c, pool) ==
    CASE c.name = "mark_rate_limited" ->
            [accounts |-> mark_rate_limited(pool.accounts, c.id, c.ms,
                                            c.key[1], c.key[2], c.key[3]),
             active |-> pool.active]
      [] c.name = "mark_account_cooling_down" ->
            [accounts |-> mark_account_cooling_down(pool.accounts, c.id, c.ms),
             active |-> pool.active]
      [] c.name = "get_current_or_next_for_family" ->
            [accounts |-> pool.accounts,
             active |-> get_current_or_next_for_family(pool.accounts, pool.active,
                                                       c.key[1], c.key[3], c.key[2]).active]
      [] c.name = "remove_account" ->
            [accounts |-> remove_account(pool.accounts, pool.active, c.id).accounts,
             active |-> remove_account(pool.accounts, pool.active, c.id).active]

ConcInit ==
    /\ disk \in InitDisks
    /\ loaded = TRUE
    /\ accounts = LoadManager(disk).accounts
    /\ active = LoadManager(disk).active
    /\ cache = EmptyDict
    /\ cfg = [model |-> GEMINI_3_PRO, quota_fallback |-> TRUE, max_rate_limit_wait_seconds |-> 0]
    /\ task = [t \in ConcTasks |-> [IdleTask EXCEPT !.pc = "awaiting"]]
    /\ ghost = [t \in ConcTasks |-> [call |-> NoCall, found |-> None, calls |-> 0]]
    /\ marks = EmptyDict
    /\ pool_ops = 0
    /\ lock = None
    /\ proc = [p \in Procs |-> IdleProc]
    /\ torn = FALSE
    /\ call = IdleCall
    /\ eval = NoEval
    /\ orphans = EmptyDict

\* mutant: a scheduler that runs a coroutine while another one is running
\* (threads instead of one event loop)
OthersSuspended_Preemptive(t) == TRUE

\* asyncio runs one coroutine at a time and switches only at an await
OthersSuspended(t) == \A u \in ConcTasks \ {t} : task[u].pc = "awaiting"

ConcFrame == UNCHANGED <<loaded, cache, cfg, lock, proc, torn, call, eval, orphans>>

\* the event loop resumes a suspended coroutine
Resume(t) ==
    /\ task[t].pc = "awaiting"
    /\ OthersSuspended(t)
    /\ task' = [task EXCEPT ![t].pc = "loop"]
    /\ UNCHANGED <<disk, accounts, active, ghost, marks, pool_ops>>
    /\ ConcFrame

\* the running coroutine reaches an await that suspends it
Await(t) ==
    /\ task[t].pc = "loop"
    /\ task' = [task EXCEPT ![t].pc = "awaiting"]
    /\ UNCHANGED <<disk, accounts, active, ghost, marks, pool_ops>>
    /\ ConcFrame

\* the running coroutine calls a pool operation
Enter(t, c) ==
    /\ task[t].pc = "loop"
    /\ OthersSuspended(t)
    /\ pool_ops < MaxPoolOps
    /\ task' = [task EXCEPT ![t].pc = "in_op"]
    /\ ghost' = [ghost EXCEPT ![t].call = c,
                              ![t].found = Some([accounts |-> accounts, active |-> active])]
    /\ UNCHANGED <<disk, accounts, active, marks, pool_ops>>
    /\ ConcFrame

\* the operation runs to its return on the pool as it is
Return(t) ==
    /\ task[t].pc = "in_op"
    /\ LET r == Returned(ghost[t].call, [accounts |-> accounts, active |-> active])
       IN  /\ accounts' = r.accounts
           /\ active' = r.active
    /\ marks' = CASE ghost[t].call.name = "remove_account" -> DropMarks(marks, ghost[t].call.id)
                  [] ghost[t].call.name = "mark_rate_limited"
                     /\ InPool(accounts, ghost[t].call.id) ->
                        Put(marks, << ghost[t].call.id,
                                      get_quota_key(ghost[t].call.key[1], ghost[t].call.key[2],
                                                    ghost[t].call.key[3]) >>,
                            ghost[t].call.ms)
                  [] OTHER -> marks
    /\ task' = [task EXCEPT ![t].pc = "loop"]
    /\ ghost' = [ghost EXCEPT ![t] = [call |-> NoCall, found |-> None, calls |-> 1]]
    /\ pool_ops' = pool_ops + 1
    /\ UNCHANGED disk
    /\ ConcFrame

\* `await manager.save_to_disk()`: save_accounts runs in the coroutine (it
\* blocks the event loop while it waits for the file lock)
ConcSave(t) ==
    /\ task[t].pc = "loop"
    /\ OthersSuspended(t)
    /\ disk' = save_to_disk(accounts, active)
    /\ UNCHANGED <<accounts, active, task, ghost, marks, pool_ops>>
    /\ ConcFrame

\* time passes while every coroutine is suspended
ConcTick(d) ==
    /\ \A t \in ConcTasks : task[t].pc = "awaiting"
    /\ Tick(d)

ConcNext ==
    \/ \E t \in ConcTasks : Resume(t)
    \/ \E t \in ConcTasks : Await(t)
    \/ \E t \in ConcTasks, c \in ConcCalls : Enter(t, c)
    \/ \E t \in ConcTasks : Return(t)
    \/ \E t \in ConcTasks : ConcSave(t)
    \/ \E d \in TickSteps : ConcTick(d)

ConcSpec == ConcInit /\ [][ConcNext]_vars

\* C22: while a coroutine is inside mark_rate_limited,
\* mark_account_cooling_down, get_current_or_next_for_family or remove_account
\* every other coroutine is suspended and the pool is the one the call found;
\* the next step is that call's return, which leaves the pool the whole
\* operation makes of the pool it found, moves no other coroutine, does not
\* suspend the caller and does not touch the storage file.
C22_OperationsAtomic ==
    [][\A t \in ConcTasks :
          task[t].pc = "in_op" =>
             /\ \A u \in ConcTasks \ {t} : task[u].pc = "awaiting" /\ task'[u] = task[u]
             /\ Val(ghost[t].found) = [accounts |-> accounts, active |-> active]
             /\ [accounts |-> accounts', active |-> active']
                   = Returned(ghost[t].call, Val(ghost[t].found))
             /\ task'[t].pc = "loop"
             /\ disk' = disk]_vars

\* a coroutine is inside remove_account after the other one has completed a call
C22_Witness ==
    \E t \in ConcTasks, u \in ConcTasks :
        /\ t # u
        /\ task[t].pc = "in_op"
        /\ ghost[t].call.name = "remove_account"
        /\ InPool(accounts, ghost[t].call.id)
        /\ ghost[u].calls > 0
        /\ task[u].pc = "awaiting"

---------------------------------------------------------------------------
(* service.py: generate_stream.  ghost[t].yielded says whether the running  *)
(* generator has yielded a text chunk.                                      *)

\* What AntigravityClient.generate_content_stream yields, as generate_stream
\* reads it: a text chunk, an error with a status code and an optional
\* retry_after_ms, or the end of the stream
StreamEvents ==
    {[kind |-> "text", status_code |-> 0, retry_after_ms |-> None],
     [kind |-> "done", status_code |-> 0, retry_after_ms |-> None],
     [kind |-> "error", status_code |-> 500, retry_after_ms |-> None]}
    \cup {[kind |-> "error", status_code |-> 429, retry_after_ms |-> h] :
             h \in ParsedRetryAfter}

\* line 385: event.get("retry_after_ms", 60000)
EventRetryAfter(event) ==
    IF IsNone(event.retry_after_ms) THEN 60000 ELSE Val(event.retry_after_ms)

StreamGhost == [yielded |-> FALSE]

StreamInit ==
    /\ disk \in InitDisks
    /\ loaded = FALSE
    /\ accounts = << >>
    /\ active = [f \in Families |-> 0]
    /\ cache = EmptyDict
    /\ cfg \in [model : Models, quota_fallback : BOOLEAN,
                 max_rate_limit_wait_seconds : MaxWaitSeconds]
    /\ task = [t \in Tasks |-> IdleTask]
    /\ ghost = [t \in Tasks |-> StreamGhost]
    /\ marks = EmptyDict
    /\ pool_ops = 0
    /\ lock = None
    /\ proc = [p \in Procs |-> IdleProc]
    /\ torn = FALSE
    /\ call = IdleCall
    /\ eval = NoEval
    /\ orphans = EmptyDict

\* lines 329-363 with _get_auth_for_account lines 114-130: resolve the model,
\* load the manager, refuse an empty pool, select an account or raise, use the
\* cached token or send the refresh request
StreamStart(t, model_arg) ==
    /\ task[t].pc \in {"idle", "done"}
    /\ task[t].calls < MaxCalls
    /\ LET model == IF model_arg # << >> THEN model_arg ELSE cfg.model
           family == get_model_family(model)
           header_style == get_header_style_from_model(model)
           mgr == IF loaded THEN [accounts |-> accounts, active |-> active]
                  ELSE LoadManager(disk)
           empty == Len(mgr.accounts) = 0
           sel == get_current_or_next_for_family(mgr.accounts, mgr.active, family, model,
                                                 header_style)
           account == At(mgr.accounts, Val(sel.pos))
           started == [IdleTask EXCEPT !.calls = task[t].calls + 1,
                                       !.model = model,
                                       !.family = family,
                                       !.header_style = header_style]
       IN  /\ loaded' = TRUE
           /\ accounts' = mgr.accounts
           /\ active' = IF empty THEN mgr.active ELSE sel.active
           /\ task' = [task EXCEPT ![t] =
                CASE empty ->
                        [started EXCEPT !.pc = "done", !.result = "NoAccountsError"]
                  [] ~empty /\ IsNone(sel.pos) ->
                        [started EXCEPT
                            !.pc = "done",
                            !.result = "AllAccountsRateLimitedError",
                            !.wait_time_ms =
                                get_min_wait_time_for_family(mgr.accounts, family, model)]
                  [] OTHER ->
                        IF account.index \in DOMAIN cache
                           /\ ~is_token_expired(cache[account.index])
                        THEN [started EXCEPT !.pc = "streaming",
                                             !.account = account.id,
                                             !.access = cache[account.index].access]
                        ELSE [started EXCEPT !.pc = "stream_refreshing",
                                             !.account = account.id]]
    /\ ghost' = [ghost EXCEPT ![t] = StreamGhost]
    /\ UNCHANGED <<disk, cache, cfg, marks, pool_ops, lock, proc, torn, call, eval, orphans>>

\* token.py lines 166-194, service.py lines 131-135 and 363-380: the refresh
\* succeeds, the streaming request is sent
StreamRefreshOk(t, expires_in, rotate) ==
    /\ task[t].pc = "stream_refreshing"
    /\ LET account == Obj(accounts, task[t].account)
           refreshed == refresh_access_token(
                            account.refresh_token, account.id,
                            IF rotate THEN Some(Rotated(account.refresh_token)) ELSE None,
                            task[t].started, expires_in)
       IN  /\ accounts' = [accounts EXCEPT ![Pos(accounts, account.id)].refresh_token =
                              parse_refresh_parts(refreshed.refresh).refresh_token]
           /\ cache' = Put(cache, account.index, refreshed)
           /\ task' = [task EXCEPT ![t].pc = "streaming", ![t].access = refreshed.access]
    /\ UNCHANGED <<disk, loaded, active, cfg, ghost, marks, pool_ops, lock, proc, torn, call, eval, orphans>>

\* service.py lines 136, 144 and 365-366: the refresh fails
StreamRefreshNone(t) ==
    /\ task[t].pc = "stream_refreshing"
    /\ task' = [task EXCEPT ![t].pc = "done", ![t].result = "AntigravityError"]
    /\ UNCHANGED <<disk, loaded, accounts, active, cache, cfg, ghost, marks, pool_ops, lock, proc, torn, call, eval, orphans>>

\* service.py lines 137-143: invalid_grant; the account is removed, the pool
\* saved, TokenRefreshFailedError leaves generate_stream
StreamRefreshRevoked(t) ==
    /\ task[t].pc = "stream_refreshing"
    /\ LET r == remove_account(accounts, active, task[t].account)
       IN  /\ accounts' = r.accounts
           /\ active' = r.active
           /\ disk' = save_to_disk(r.accounts, r.active)
    /\ task' = [task EXCEPT ![t].pc = "done", ![t].result = "TokenRefreshFailedError"]
    /\ marks' = DropMarks(marks, task[t].account)
    /\ UNCHANGED <<loaded, cache, cfg, ghost, pool_ops, lock, proc, torn, call, eval, orphans>>

\* lines 381-404: one event of the stream
StreamEvent(t, event) ==
    /\ task[t].pc = "streaming"
    /\ CASE event.kind = "text" ->
              /\ ghost' = [ghost EXCEPT ![t].yielded = TRUE]
              /\ UNCHANGED <<disk, accounts, task, marks>>
         [] event.kind = "error" /\ event.status_code = 429 ->
              /\ accounts' = mark_rate_limited(accounts, task[t].account,
                                               EventRetryAfter(event), task[t].family,
                                               task[t].header_style, task[t].model)
              /\ marks' = Put(marks, << task[t].account,
                                        get_quota_key(task[t].family, task[t].header_style,
                                                      task[t].model) >>,
                              EventRetryAfter(event))
              /\ disk' = save_to_disk(accounts', active)
              /\ task' = [task EXCEPT ![t].pc = "done",
                                      ![t].result = "AllAccountsRateLimitedError",
                                      ![t].wait_time_ms = EventRetryAfter(event)]
              /\ UNCHANGED ghost
         [] event.kind = "error" /\ event.status_code # 429 ->
              /\ task' = [task EXCEPT ![t].pc = "done", ![t].result = "AntigravityError"]
              /\ UNCHANGED <<disk, accounts, ghost, marks>>
         [] event.kind = "done" ->
              /\ accounts' = [accounts EXCEPT
                                 ![Pos(accounts, task[t].account)].consecutive_failures = 0]
              /\ disk' = save_to_disk(accounts', active)
              /\ task' = [task EXCEPT ![t].pc = "done", ![t].result = "ok"]
              /\ UNCHANGED <<ghost, marks>>
    /\ UNCHANGED <<loaded, active, cache, cfg, pool_ops, lock, proc, torn, call, eval, orphans>>

StreamNext ==
    \/ \E t \in Tasks, model_arg \in ModelArgs : StreamStart(t, model_arg)
    \/ \E t \in Tasks, e \in ExpiresIn, rotate \in Rotations : StreamRefreshOk(t, e, rotate)
    \/ \E t \in Tasks : StreamRefreshNone(t)
    \/ \E t \in Tasks : StreamRefreshRevoked(t)
    \/ \E t \in Tasks, event \in StreamEvents : StreamEvent(t, event)
    \/ \E d \in TickSteps : Tick(d)

StreamSpec == StreamInit /\ [][StreamNext]_vars

\* the step of task t is the handling of a 429 that arrives before any text
\* chunk has been yielded
Stream429First(t, event) ==
    /\ event.kind = "error"
    /\ event.status_code = 429
    /\ ~ghost[t].yielded
    /\ StreamEvent(t, event)

\* C23: in generate_stream a 429 that arrives before any text chunk is handled
\* as in generate: with a retry-after at or under the short threshold the
\* identity is not marked and the request is retried on it; with a longer one
\* the identity is marked for the quota key used, the pool is saved, and the
\* generator goes on (other quota or next identity) instead of raising.
C23_LiveStream429 ==
    [][\A t \in Tasks, event \in StreamEvents :
          Stream429First(t, event) =>
             IF EventRetryAfter(event) <= SHORT_RETRY_THRESHOLD_MS
             THEN /\ accounts' = accounts
                  /\ task'[t].pc # "done"
                  /\ task'[t].account = task[t].account
             ELSE /\ is_rate_limited_for_header_style(
                         Obj(accounts', task[t].account), task[t].family,
                         task[t].header_style, task[t].model)
                  /\ disk' = save_to_disk(accounts', active')
                  /\ task'[t].pc # "done"]_vars

---------------------------------------------------------------------------
(* token.py and client.py: functions run on their own.  Nothing of the      *)
(* service is in use; eval holds the input and what has been computed.      *)

Quiet ==
    /\ disk = EmptyStorage
    /\ loaded = FALSE
    /\ accounts = << >>
    /\ active = [f \in Families |-> 0]
    /\ cache = EmptyDict
    /\ cfg = [model |-> GEMINI_3_PRO, quota_fallback |-> TRUE, max_rate_limit_wait_seconds |-> 0]
    /\ task = [t \in Tasks |-> IdleTask]
    /\ ghost = [t \in Tasks |-> IdleGhost]
    /\ marks = EmptyDict
    /\ pool_ops = 0
    /\ lock = None
    /\ proc = [p \in Procs |-> IdleProc]
    /\ torn = FALSE
    /\ call = IdleCall
    /\ orphans = EmptyDict

EvalFrame ==
    UNCHANGED <<disk, loaded, accounts, active, cache, cfg, task, ghost, marks, pool_ops,
                lock, proc, torn, call, orphans>>

\* strings over a letter and the separator, up to MaxFieldLen characters
MaxFieldLen == 2
LETTER == 97
FieldStrings == UNION {[1 .. n -> {LETTER, PIPE}] : n \in 0 .. MaxFieldLen}
OptFieldStrings == {None} \cup {Some(s) : s \in FieldStrings}

\* every RefreshParts over these strings
PartsArgs ==
    [refresh_token : FieldStrings, project_id : OptFieldStrings,
     managed_project_id : OptFieldStrings]

TokenInit ==
    /\ Quiet
    /\ eval \in {[fn |-> "refresh_parts", parts |-> parts, stored |-> None, parsed |-> None] :
                    parts \in PartsArgs}

\* format_refresh_parts(parts)
Format ==
    /\ eval.fn = "refresh_parts"
    /\ IsNone(eval.stored)
    /\ eval' = [eval EXCEPT !.stored = Some(format_refresh_parts(eval.parts))]
    /\ EvalFrame

\* parse_refresh_parts of the formatted string
Parse ==
    /\ eval.fn = "refresh_parts"
    /\ ~IsNone(eval.stored)
    /\ IsNone(eval.parsed)
    /\ eval' = [eval EXCEPT !.parsed = Some(parse_refresh_parts(Val(eval.stored)))]
    /\ EvalFrame

TokenNext == Format \/ Parse

TokenSpec == TokenInit /\ [][TokenNext]_vars

PipeFree(s) == \A i \in 1 .. Len(s) : s[i] # PIPE
NullOrPlain(o) == IsNone(o) \/ (Val(o) # << >> /\ PipeFree(Val(o)))
WellFormed(parts) ==
    /\ parts.refresh_token # << >>
    /\ PipeFree(parts.refresh_token)
    /\ NullOrPlain(parts.project_id)
    /\ NullOrPlain(parts.managed_project_id)

Separators(s) == Cardinality({i \in 1 .. Len(s) : s[i] = PIPE})

\* C24: for well-formed RefreshParts the formatted secret holds one separator
\* after the refresh token and a second one exactly when there is a managed
\* project id, and parsing it gives the parts back.
C24_RefreshPartsRoundTrip ==
    (eval.fn = "refresh_parts" /\ WellFormed(eval.parts)) =>
        /\ ~IsNone(eval.stored) =>
              /\ Separators(Val(eval.stored))
                    = IF IsNone(eval.parts.managed_project_id) THEN 1 ELSE 2
              /\ SubSeq(Val(eval.stored), 1, Len(eval.parts.refresh_token) + 1)
                    = eval.parts.refresh_token \o << PIPE >>
        /\ ~IsNone(eval.parsed) => Val(eval.parsed) = eval.parts

\* a secret with a managed project id and no project id has gone round
C24_Witness ==
    /\ eval.fn = "refresh_parts"
    /\ WellFormed(eval.parts)
    /\ IsNone(eval.parts.project_id)
    /\ ~IsNone(eval.parts.managed_project_id)
    /\ ~IsNone(eval.parsed)
    /\ Val(eval.stored) = eval.parts.refresh_token \o << PIPE, PIPE >>
                            \o Val(eval.parts.managed_project_id)

---------------------------------------------------------------------------
(* client.py: extract_text_from_response.  A part is a dict with or without *)
(* the keys "text" and "thought" (an absent key is None); a candidate is    *)
(* its content.parts list; an event or a body holds its candidates at the   *)
(* top level (own) or, when it has the key "response", inside it (nested).  *)

MaxParts == 2

TextPart(s) == [text |-> Some(s), thought |-> None]
ThoughtPart(s) == [text |-> None, thought |-> Some(s)]
BothPart(s, th) == [text |-> Some(s), thought |-> Some(th)]

PartArgs ==
    {TextPart(<< "a" >>), TextPart(<< "c" >>), ThoughtPart(<< "z" >>),
     BothPart(<< "b" >>, << "y" >>)}

\* the parts of spec section 7: text a, thought z, text b with thought y, text c
ExampleParts ==
    << TextPart(<< "a" >>), ThoughtPart(<< "z" >>), BothPart(<< "b" >>, << "y" >>),
       TextPart(<< "c" >>) >>

PartsLists == UNION {[1 .. n -> PartArgs] : n \in 0 .. MaxParts} \cup {ExampleParts}

CandidateLists ==
    {<< >>}
    \cup {<< parts >> : parts \in PartsLists}
    \cup {<< parts, << TextPart(<< "c" >>) >> >> : parts \in PartsLists}

\* has_response: the key "response" is present, and then `nested` is read
EventArgs ==
    [has_response : BOOLEAN, own : CandidateLists,
     nested : {<< >>, << << TextPart(<< "a" >>) >> >>}]

\* a streaming body is a list of events, a non-streaming body one dict
BodyArgs ==
    {<< event >> : event \in EventArgs}
    \cup {<< event, [has_response |-> n, own |-> << ExampleParts >>,
                     nested |-> << << ThoughtPart(<< "z" >>), TextPart(<< "c" >>) >> >>] >> :
             event \in EventArgs, n \in BOOLEAN}

\* mutant: a part with a text is kept whether or not it has a thought
RECURSIVE extract_text_from_parts_keeps_thoughts(_)
extract_text_from_parts_keeps_thoughts(parts) ==
    IF parts = << >> THEN << >>
    ELSE (IF ~IsNone(Head(parts).text) THEN Val(Head(parts).text) ELSE << >>)
         \o extract_text_from_parts_keeps_thoughts(Tail(parts))

\* lines 408-415
RECURSIVE extract_text_from_parts(_)
extract_text_from_parts(parts) ==
    IF parts = << >> THEN << >>
    ELSE (IF ~IsNone(Head(parts).text) /\ IsNone(Head(parts).thought)
          THEN Val(Head(parts).text) ELSE << >>)
         \o extract_text_from_parts(Tail(parts))

\* event.get("response", event).get("candidates", [])
Candidates(event) == IF event.has_response THEN event.nested ELSE event.own

\* lines 423-427: the texts of the candidates of one event, in order
RECURSIVE CandidateTexts(_)
CandidateTexts(candidates) ==
    IF candidates = << >> THEN << >>
    ELSE extract_text_from_parts(Head(candidates)) \o CandidateTexts(Tail(candidates))

\* lines 420-428
RECURSIVE EventTexts(_)
EventTexts(events) ==
    IF events = << >> THEN << >>
    ELSE CandidateTexts(Candidates(Head(events))) \o EventTexts(Tail(events))

\* a streaming call is given the list of events, a non-streaming call the
\* first element of body as its dict
extract_text_from_response(body, streaming) ==
    IF streaming THEN EventTexts(body)
    ELSE IF Candidates(body[1]) # << >>
         THEN extract_text_from_parts(Candidates(body[1])[1])
         ELSE << >>

TextInit ==
    /\ Quiet
    /\ eval \in {[fn |-> "extract_text", body |-> body, streaming |-> streaming,
                  text |-> None] : body \in BodyArgs, streaming \in BOOLEAN}

ExtractText ==
    /\ eval.fn = "extract_text"
    /\ IsNone(eval.text)
    /\ eval' = [eval EXCEPT !.text = Some(extract_text_from_response(eval.body,
                                                                       eval.streaming))]
    /\ EvalFrame

TextNext == ExtractText

TextSpec == TextInit /\ [][TextNext]_vars

\* the parts of every candidate of every event, in event and candidate order
AllParts(events) ==
    LET partsOf(event) ==
            LET cs == Candidates(event)
            IN  IF Len(cs) = 0 THEN << >>
                ELSE IF Len(cs) = 1 THEN cs[1] ELSE cs[1] \o cs[2]
    IN  IF Len(events) = 1 THEN partsOf(events[1])
        ELSE partsOf(events[1]) \o partsOf(events[2])

\* the texts of the parts with a text and no thought, one character each
PlainTexts(parts) ==
    LET kept == SelectSeq(parts, LAMBDA p : p.text # None /\ p.thought = None)
    IN  [i \in 1 .. Len(kept) |-> Val(kept[i].text)[1]]

\* C25: the extracted text is the texts of the parts that have a text and no
\* thought, in order: of the parts of the first candidate for a non-streaming
\* body, of all candidates of all events (each read from the event or from its
\* "response") for a streaming one.
C25_ThoughtsFiltered ==
    (eval.fn = "extract_text" /\ ~IsNone(eval.text)) =>
        Val(eval.text) =
            IF eval.streaming THEN PlainTexts(AllParts(eval.body))
            ELSE IF Candidates(eval.body[1]) = << >> THEN << >>
                 ELSE PlainTexts(Candidates(eval.body[1])[1])

\* the text "ac" has been extracted from the parts a, thought z, b with thought
\* y, c
C25_Witness ==
    /\ eval.fn = "extract_text"
    /\ ~eval.streaming
    /\ ~eval.body[1].has_response
    /\ eval.body[1].own = << ExampleParts >>
    /\ eval.text = Some(<< "a", "c" >>)

---------------------------------------------------------------------------
(* client.py: parse_retry_after on its own *)

HeaderMsArgs ==
    {None, Some(<< >>), Some(<< "0" >>), Some(<< "5", "0", "0", "0" >>),
     Some(<< "1", ".", "5" >>), Some(<< "x" >>)}
HeaderArgs == {None, Some(<< "5" >>), Some(<< "9", "0" >>), Some(<< "5", "s" >>)}
\* delay strings: a number with and without a unit, with a fraction, and
\* strings that are no <number><unit>
DelayArgs ==
    {<< "5" >>, << "5", "s" >>, << "2", "m" >>, << "1", "h" >>, << "1", ".", "5", "m" >>,
     << "0", ".", "5", "s" >>, << "x" >>, << >>, << "5", "m", "s" >>}
DetailArgs ==
    [retry_info : BOOLEAN,
     retryDelay : {None} \cup {Some(s) : s \in DelayArgs},
     quotaResetDelay : {None, Some(<< "2", "m" >>), Some(<< "x" >>)}]
LaterDetailArgs ==
    {[retry_info |-> TRUE, retryDelay |-> Some(<< "1", "h" >>), quotaResetDelay |-> None],
     [retry_info |-> FALSE, retryDelay |-> None, quotaResetDelay |-> Some(<< "5", "s" >>)],
     [retry_info |-> FALSE, retryDelay |-> None, quotaResetDelay |-> None]}
DetailsArgs ==
    {<< >>}
    \cup {<< d >> : d \in DetailArgs}
    \cup {<< d, e >> : d \in DetailArgs, e \in LaterDetailArgs}

ResponseArgs ==
    [retry_after_ms : HeaderMsArgs, retry_after : HeaderArgs, json : {TRUE},
     details : DetailsArgs]
    \cup [retry_after_ms : HeaderMsArgs, retry_after : HeaderArgs, json : {FALSE},
          details : {<< >>}]

RetryInit ==
    /\ Quiet
    /\ eval \in {[fn |-> "parse_retry_after", response |-> response, parsed |-> None] :
                    response \in ResponseArgs}

ParseRetryAfter ==
    /\ eval.fn = "parse_retry_after"
    /\ IsNone(eval.parsed)
    /\ eval' = [eval EXCEPT !.parsed = Some(parse_retry_after(eval.response))]
    /\ EvalFrame

RetryNext == ParseRetryAfter

RetrySpec == RetryInit /\ [][RetryNext]_vars

\* the header is an integer
IsInteger(o) == ~IsNone(o) /\ Val(o) # << >> /\ \A i \in 1 .. Len(Val(o)) : IsDigit(Val(o)[i])

\* the delay strings of the form <number><unit>, a missing unit meaning
\* seconds, and their milliseconds: s = x1000, m = x60000, h = x3600000
DelayTable ==
    {<< << "5" >>, 5 * 1000 >>, << << "5", "s" >>, 5 * 1000 >>,
     << << "2", "m" >>, 2 * 60000 >>, << << "1", "h" >>, 3600000 >>,
     << << "1", ".", "5", "m" >>, 90000 >>, << << "0", ".", "5", "s" >>, 500 >>}
IsDelay(o) == ~IsNone(o) /\ \E e \in DelayTable : e[1] = Val(o)
Converted(o) == (CHOOSE e \in DelayTable : e[1] = Val(o))[2]

\* the detail is a RetryInfo with a retryDelay, or carries a quotaResetDelay
Qualifies(detail) ==
    (detail.retry_info /\ ~IsNone(detail.retryDelay)) \/ ~IsNone(detail.quotaResetDelay)
\* the delay string the detail gives
DelayOf(detail) ==
    IF detail.retry_info /\ ~IsNone(detail.retryDelay) THEN detail.retryDelay
    ELSE detail.quotaResetDelay

\* the claimed result for a response whose qualifying details hold delay
\* strings of the form <number><unit>
Expected(response) ==
    LET q == {i \in 1 .. Len(response.details) : Qualifies(response.details[i])}
    IN  IF IsInteger(response.retry_after_ms) THEN Some(NatOf(Val(response.retry_after_ms)))
        ELSE IF IsInteger(response.retry_after)
        THEN Some(NatOf(Val(response.retry_after)) * 1000)
        ELSE IF response.json /\ q # {}
        THEN Some(Converted(DelayOf(response.details[SetMin(q)])))
        ELSE None

\* C26: the delay is the retry-after-ms header when that is an integer, else
\* the retry-after header times 1000 when that is an integer, else the
\* converted delay string of the first detail that is a RetryInfo with a
\* retryDelay or carries a metadata.quotaResetDelay, else none.
C26_RetryAfterOrder ==
    (/\ eval.fn = "parse_retry_after"
     /\ ~IsNone(eval.parsed)
     /\ \A i \in 1 .. Len(eval.response.details) :
           Qualifies(eval.response.details[i]) => IsDelay(DelayOf(eval.response.details[i])))
    => Val(eval.parsed) = Expected(eval.response)

\* 90000 has been read from the retryDelay "1.5m" of the second detail, under
\* headers that are no integers
C26_Witness ==
    /\ eval.fn = "parse_retry_after"
    /\ eval.response.retry_after_ms = Some(<< "x" >>)
    /\ eval.response.retry_after = Some(<< "5", "s" >>)
    /\ Len(eval.response.details) = 2
    /\ ~Qualifies(eval.response.details[1])
    /\ eval.response.details[2].quotaResetDelay = Some(<< "5", "s" >>)
    /\ eval.parsed = Some(Some(5000))

---------------------------------------------------------------------------
(* client.py: resolve_gemini3_model and the generationConfig of
   prepare_request. Model names are strings of one-character strings. *)

UpperChars ==
    << "A", "B", "C", "D", "E", "F", "G", "H", "I", "J", "K", "L", "M",
       "N", "O", "P", "Q", "R", "S", "T", "U", "V", "W", "X", "Y", "Z" >>
LowerChars ==
    << "a", "b", "c", "d", "e", "f", "g", "h", "i", "j", "k", "l", "m",
       "n", "o", "p", "q", "r", "s", "t", "u", "v", "w", "x", "y", "z" >>
\* str.lower()
lower(s) ==
    [i \in 1 .. Len(s) |->
        IF \E n \in 1 .. 26 : UpperChars[n] = s[i]
        THEN LowerChars[CHOOSE n \in 1 .. 26 : UpperChars[n] = s[i]]
        ELSE s[i]]
\* sub in s
HasSubstring(s, sub) ==
    \E i \in 0 .. (Len(s) - Len(sub)) : SubSeq(s, i + 1, i + Len(sub)) = sub
\* s without its last n characters
DropLast(s, n) == SubSeq(s, 1, Len(s) - n)
\* s ends with suffix, whatever the case
EndsWithIgnoreCase(s, suffix) ==
    /\ Len(s) >= Len(suffix)
    /\ lower(SubSeq(s, Len(s) - Len(suffix) + 1, Len(s))) = suffix

GEMINI_3 == << "g", "e", "m", "i", "n", "i", "-", "3" >>
DASH_PRO == << "-", "p", "r", "o" >>
DASH_FLASH == << "-", "f", "l", "a", "s", "h" >>
MINIMAL == << "m", "i", "n", "i", "m", "a", "l" >>
LOW == << "l", "o", "w" >>
MEDIUM == << "m", "e", "d", "i", "u", "m" >>
HIGH == << "h", "i", "g", "h" >>
TierWords == {MINIMAL, LOW, MEDIUM, HIGH}
ANTIGRAVITY_SUFFIX ==
    << ":", "a", "n", "t", "i", "g", "r", "a", "v", "i", "t", "y" >>

\* TIER_REGEX.search(model): the tier word of a trailing -(minimal|low|medium|high),
\* lowercased, whatever its case; None without a match
TIER_REGEX(model) ==
    LET found == {tier \in TierWords : EndsWithIgnoreCase(model, << "-" >> \o tier)}
    IN  IF found = {} THEN None ELSE Some(CHOOSE tier \in found : TRUE)

GEMINI_3_DEFAULT_TIER == LOW

\* mutant: Gemini 3 Pro loses its tier suffix as Gemini 3 Flash does
resolve_gemini3_model_pro_bare(model) ==
    LET tier == TIER_REGEX(model)
        base_name == IF IsNone(tier) THEN model ELSE DropLast(model, Len(Val(tier)) + 1)
    IN  IF ~HasSubstring(lower(model), GEMINI_3) THEN [model |-> model, tier |-> None]
        ELSE IF HasSubstring(lower(model), GEMINI_3 \o DASH_PRO) \/ HasSubstring(lower(model), GEMINI_3 \o DASH_FLASH)
        THEN [model |-> base_name,
              tier |-> IF IsNone(tier) THEN Some(GEMINI_3_DEFAULT_TIER) ELSE tier]
        ELSE [model |-> model, tier |-> tier]

\* the pair (resolved_model_name, thinking_level)
resolve_gemini3_model(model) ==
    LET tier == TIER_REGEX(model)
        base_name == IF IsNone(tier) THEN model ELSE DropLast(model, Len(Val(tier)) + 1)
        is_pro == HasSubstring(lower(model), GEMINI_3 \o DASH_PRO)
        is_flash == HasSubstring(lower(model), GEMINI_3 \o DASH_FLASH)
    IN  IF ~HasSubstring(lower(model), GEMINI_3) THEN [model |-> model, tier |-> None]
        ELSE IF is_pro
        THEN IF ~IsNone(tier) THEN [model |-> model, tier |-> tier]
             ELSE [model |-> base_name \o << "-" >> \o GEMINI_3_DEFAULT_TIER,
                   tier |-> Some(GEMINI_3_DEFAULT_TIER)]
        ELSE IF is_flash
        THEN [model |-> base_name,
              tier |-> IF IsNone(tier) THEN Some(GEMINI_3_DEFAULT_TIER) ELSE tier]
        ELSE [model |-> model, tier |-> tier]

\* re.sub(r":antigravity$", "", model, flags=re.IGNORECASE)
strip_model_suffix(model) ==
    IF EndsWithIgnoreCase(model, ANTIGRAVITY_SUFFIX)
    THEN DropLast(model, Len(ANTIGRAVITY_SUFFIX))
    ELSE model

\* prepare_request, lines 202-206: the model on the wire and the thinking level
effective_model(model) == resolve_gemini3_model(strip_model_suffix(model))

\* prepare_request, lines 224-233: a generation config is its other keys (a
\* set) and its thinkingConfig (None when the key is absent)
gen_config(model, generation_config) ==
    LET resolved == effective_model(model)
    IN  IF ~IsNone(resolved.tier) /\ HasSubstring(lower(resolved.model), GEMINI_3)
        THEN [generation_config EXCEPT
                 !.thinkingConfig = Some([includeThoughts |-> TRUE,
                                          thinkingLevel |-> Val(resolved.tier)])]
        ELSE generation_config

\* model arguments: Gemini 3 Pro and Flash with and without a tier, in both
\* cases, with the :antigravity suffix, with a tier word that is no suffix,
\* another Gemini 3 model, and models that are no Gemini 3
UpperTier == << "-", "H", "I", "G", "H" >>
PreviewSuffix == << "-", "p", "r", "e", "v", "i", "e", "w" >>
Gemini25 == << "g", "e", "m", "i", "n", "i", "-", "2", ".", "5", "-", "p", "r", "o" >>
ClaudeName == << "c", "l", "a", "u", "d", "e" >>
BaseNames ==
    {GEMINI_3 \o DASH_PRO, GEMINI_3 \o DASH_FLASH, GEMINI_3,
     << "G", "e", "m", "i", "n", "i", "-", "3" >> \o DASH_PRO,
     Gemini25, ClaudeName}
TierSuffixes ==
    {<< >>, UpperTier, PreviewSuffix, << "-" >> \o HIGH \o PreviewSuffix}
    \cup {<< "-" >> \o tier : tier \in TierWords}
ModelNames ==
    {base \o suffix \o style :
        base \in BaseNames, suffix \in TierSuffixes,
        style \in {<< >>, ANTIGRAVITY_SUFFIX}}

\* generation_config arguments: none (an empty dict), other keys, and a
\* thinkingConfig of the caller's
NoConfig == [keys |-> {}, thinkingConfig |-> None]
ConfigArgs ==
    {NoConfig,
     [keys |-> {"temperature"}, thinkingConfig |-> None],
     [keys |-> {}, thinkingConfig |-> Some([includeThoughts |-> FALSE, thinkingLevel |-> HIGH])],
     [keys |-> {}, thinkingConfig |-> Some([includeThoughts |-> TRUE, thinkingLevel |-> HIGH])]}

ModelInit ==
    /\ Quiet
    /\ eval \in {[fn |-> "prepare_request", model |-> model,
                  generation_config |-> generation_config,
                  resolved |-> None, gen_config |-> None] :
                    model \in ModelNames, generation_config \in ConfigArgs}

\* resolve_gemini3_model on the model argument itself
ResolveModel ==
    /\ eval.fn = "prepare_request"
    /\ IsNone(eval.resolved)
    /\ IsNone(eval.gen_config)
    /\ eval' = [eval EXCEPT !.fn = "resolve_gemini3_model",
                            !.resolved = Some(resolve_gemini3_model(eval.model))]
    /\ EvalFrame

\* prepare_request up to the generation config
PrepareRequest ==
    /\ eval.fn = "prepare_request"
    /\ IsNone(eval.resolved)
    /\ eval' = [eval EXCEPT !.resolved = Some(effective_model(eval.model)),
                            !.gen_config = Some(gen_config(eval.model, eval.generation_config))]
    /\ EvalFrame

ModelNext == ResolveModel \/ PrepareRequest

ModelSpec == ModelInit /\ [][ModelNext]_vars

\* the tier suffix of a name given letter by letter, None without one
SuffixOf(name) ==
    LET n == Len(name)
        ends(word) == n >= Len(word) + 1 /\ name[n - Len(word)] = "-"
                      /\ lower(SubSeq(name, n - Len(word) + 1, n)) = word
    IN  IF ends(MINIMAL) THEN Some(MINIMAL)
        ELSE IF ends(LOW) THEN Some(LOW)
        ELSE IF ends(MEDIUM) THEN Some(MEDIUM)
        ELSE IF ends(HIGH) THEN Some(HIGH)
        ELSE None
\* name is bare \o the suffix, of the length of its tier word plus the dash
WithoutSuffix(name, bare) ==
    IF IsNone(SuffixOf(name)) THEN bare = name
    ELSE /\ Len(bare) = Len(name) - Len(Val(SuffixOf(name))) - 1
         /\ \A i \in 1 .. Len(bare) : bare[i] = name[i]
IsPro(name) == HasSubstring(lower(name), GEMINI_3 \o DASH_PRO)
IsFlash(name) == HasSubstring(lower(name), GEMINI_3 \o DASH_FLASH)

\* the claimed pair for a Pro, a Flash and a non-Gemini-3 name
Claimed(name, resolved) ==
    /\ (IsPro(name) /\ ~IsNone(SuffixOf(name)))
          => resolved.model = name /\ resolved.tier = SuffixOf(name)
    /\ (IsPro(name) /\ IsNone(SuffixOf(name)))
          => resolved.model = name \o << "-", "l", "o", "w" >> /\ resolved.tier = Some(LOW)
    /\ (IsFlash(name) /\ ~IsPro(name))
          => /\ WithoutSuffix(name, resolved.model)
             /\ resolved.tier = (IF IsNone(SuffixOf(name)) THEN Some(LOW) ELSE SuffixOf(name))
    /\ ~HasSubstring(lower(name), GEMINI_3)
          => resolved.model = name /\ IsNone(resolved.tier)

\* C27: resolve_gemini3_model gives a Gemini 3 Pro name its tier (the name
\* unchanged) or -low, a Gemini 3 Flash name its bare name and its tier or
\* low, and any other name no tier; prepare_request puts thinkingConfig
\* {includeThoughts: true, thinkingLevel: tier} in the generation config
\* exactly when a tier is resolved, and leaves the config alone otherwise.
C27_Gemini3Normalization ==
    /\ (eval.fn = "resolve_gemini3_model") => Claimed(eval.model, Val(eval.resolved))
    /\ (eval.fn = "prepare_request" /\ ~IsNone(eval.gen_config)) =>
          LET resolved == Val(eval.resolved)
              config == Val(eval.gen_config)
          IN  /\ Claimed(DropLast(eval.model,
                                  IF EndsWithIgnoreCase(eval.model, ANTIGRAVITY_SUFFIX)
                                  THEN 12 ELSE 0), resolved)
              /\ ~IsNone(resolved.tier) =>
                    /\ config.thinkingConfig
                          = Some([includeThoughts |-> TRUE, thinkingLevel |-> Val(resolved.tier)])
                    /\ config.keys = eval.generation_config.keys
              /\ IsNone(resolved.tier) => config = eval.generation_config

\* gemini-3-pro went on the wire as gemini-3-pro-low with thinkingLevel low
C27_Witness ==
    /\ eval.fn = "prepare_request"
    /\ eval.model = GEMINI_3 \o DASH_PRO
    /\ eval.generation_config = NoConfig
    /\ eval.resolved = Some([model |-> GEMINI_3 \o DASH_PRO \o << "-" >> \o LOW,
                             tier |-> Some(LOW)])
    /\ eval.gen_config = Some([keys |-> {},
                               thinkingConfig |-> Some([includeThoughts |-> TRUE,
                                                        thinkingLevel |-> LOW])])

---------------------------------------------------------------------------
(* accounts.py: the selection on its own.  The pool is marked, cooled down, *)
(* shrunk and aged as in PoolSpec; each selection leaves its arguments, the *)
(* active indices it found and the position it returned in eval.            *)

SelectCurrentOrNext(family, model, header_style) ==
    /\ pool_ops < MaxPoolOps
    /\ pool_ops' = pool_ops + 1
    /\ LET r == get_current_or_next_for_family(accounts, active, family, model, header_style)
       IN  /\ active' = r.active
           /\ eval' = [fn |-> "get_current_or_next_for_family", family |-> family,
                       model |-> model, header_style |-> header_style,
                       from |-> active, pos |-> r.pos]
    /\ UNCHANGED <<disk, loaded, accounts, cache, cfg, task, ghost, marks, lock, proc,
                   torn, call, orphans>>

SelectNext ==
    \/ \E id \in Ids, d \in PoolDelays, a \in KeyArgs :
          PoolMarkRateLimited(id, d, a[1], a[2], a[3])
    \/ \E id \in Ids, d \in PoolDelays : PoolMarkCoolingDown(id, d)
    \/ \E a \in KeyArgs : SelectCurrentOrNext(a[1], a[3], a[2])
    \/ \E id \in Ids : PoolRemoveAccount(id)
    \/ \E d \in TickSteps : Tick(d)

SelectSpec == PoolInit /\ [][SelectNext]_vars

\* the number of steps from position from to position to in cyclic pool order
CyclicDistance(from, to, n) == (to - from + n) % n

\* what the claim says of one selection: the pool and the indices before, the
\* position returned and the indices after
SelectionOf(accs, act, family, model, header_style, pos, act_after) ==
    LET n == Len(accs)
        current == act[family]
        free == {i \in 0 .. (n - 1) : ~is_rate_limited(At(accs, i), family, model)}
    IN  /\ n = 0 => IsNone(pos) /\ act_after = act
        /\ (/\ n > 0
            /\ ~is_rate_limited_for_header_style(At(accs, current), family, header_style, model))
              => pos = Some(current) /\ act_after = act
        /\ (/\ n > 0
            /\ is_rate_limited_for_header_style(At(accs, current), family, header_style, model)
            /\ free = {})
              => IsNone(pos) /\ act_after = act
        /\ (/\ n > 0
            /\ is_rate_limited_for_header_style(At(accs, current), family, header_style, model)
            /\ free # {})
              => /\ ~IsNone(pos)
                 /\ Val(pos) \in free
                 /\ \A i \in free :
                       CyclicDistance(current, Val(pos), n) <= CyclicDistance(current, i, n)
                 /\ act_after[family] = Val(pos)
        /\ \A other \in DOMAIN act : other # family => act_after[other] = act[other]

\* C28: get_current_or_next_for_family returns none on an empty pool, the
\* current account with the active index unchanged when it is not rate-limited
\* for the preferred style, else the first account from the active index on in
\* cyclic order that is not rate-limited, whose position becomes the family's
\* active index; returning none leaves the index alone, and the other family's
\* index never changes.
C28_CurrentOrNext ==
    [][\A a \in KeyArgs :
          SelectCurrentOrNext(a[1], a[3], a[2])
          => SelectionOf(accounts, active, a[1], a[3], a[2], eval'.pos, active')]_vars

\* a selection found the current account rate-limited for its style and
\* moved on to the next position
C28_Witness ==
    /\ eval.fn = "get_current_or_next_for_family"
    /\ eval.pos = Some(1)
    /\ eval.from[eval.family] = 0
    /\ active[eval.family] = 1

---------------------------------------------------------------------------
(* accounts.py: the rate-limit predicates on their own.  The pool is marked, *)
(* cooled down and aged; the one query of a run asks is_rate_limited and     *)
(* get_available_header_style of one pooled account at one time.             *)

\* the pooled account object named id
PooledAccount(accs, id) == accs[CHOOSE i \in 1 .. Len(accs) : accs[i].id = id]

QueryRateLimited(id, family, model) ==
    /\ eval = NoEval
    /\ InPool(accounts, id)
    /\ LET account == PooledAccount(accounts, id)
       IN  eval' = [fn |-> "is_rate_limited", id |-> id, family |-> family, model |-> model,
                    limited |-> is_rate_limited(account, family, model),
                    style |-> get_available_header_style(account, family, model)]
    /\ UNCHANGED <<disk, loaded, accounts, active, cache, cfg, task, ghost, marks,
                   pool_ops, lock, proc, torn, call, orphans>>

\* the run ends with the query; a reset time or a cooldown end that is not in
\* the future is one that time has passed
LimitNext ==
    \/ \E id \in Ids, d \in PoolDelays \ {0}, a \in KeyArgs :
          eval = NoEval /\ PoolMarkRateLimited(id, d, a[1], a[2], a[3])
    \/ \E id \in Ids, d \in PoolDelays \ {0} : eval = NoEval /\ PoolMarkCoolingDown(id, d)
    \/ \E id \in Ids, a \in KeyArgs : QueryRateLimited(id, a[1], a[3])
    \/ \E d \in TickSteps : eval = NoEval /\ Tick(d)

\* the predicates read no active index: the pools start at their head
LimitInit == PoolInit /\ disk.active_index = 0

LimitSpec == LimitInit /\ [][LimitNext]_vars

\* the account has a cooldown that ends in the future
CoolsDown(account) ==
    account.cooling_down_until # None /\ account.cooling_down_until[1] > 0
\* the quota key base or base:model of the account has a reset time in the future
Exhausted(account, base, model) ==
    LET key == IF base = "claude" \/ model = << >> THEN << base >> ELSE << base, model >>
    IN  /\ key \in DOMAIN account.rate_limit_reset_times
        /\ account.rate_limit_reset_times[key] > 0

\* what the claim says of the two answers for an account
RateLimitAnswers(account, family, model, limited, style) ==
    LET first == IF family = MODEL_FAMILY_CLAUDE THEN "claude" ELSE "gemini-antigravity"
    IN  /\ family = MODEL_FAMILY_GEMINI =>
              (limited <=> \/ CoolsDown(account)
                           \/ /\ Exhausted(account, "gemini-antigravity", model)
                              /\ Exhausted(account, "gemini-cli", model))
        /\ IsNone(style) <=> limited
        /\ ~limited =>
              IF ~Exhausted(account, first, model)
              THEN style = Some(HEADER_STYLE_ANTIGRAVITY)
              ELSE family = MODEL_FAMILY_GEMINI /\ style = Some(HEADER_STYLE_GEMINI_CLI)

\* C29: for Gemini, is_rate_limited is true exactly when the account cools
\* down or both its antigravity and its gemini-cli quota for the model reset
\* in the future; for both families get_available_header_style returns none
\* exactly when is_rate_limited is true, and otherwise antigravity when that
\* quota is free, gemini-cli only for Gemini with antigravity exhausted.
C29_RateLimitedBothQuotas ==
    [][\A id \in Ids, a \in KeyArgs :
          QueryRateLimited(id, a[1], a[3])
          => RateLimitAnswers(PooledAccount(accounts, id), a[1], a[3],
                              eval'.limited, eval'.style)]_vars

\* a Gemini account that does not cool down was found rate-limited with no
\* style available, both its quotas exhausted
C29_Witness ==
    /\ eval.fn = "is_rate_limited"
    /\ eval.family = MODEL_FAMILY_GEMINI
    /\ eval.limited
    /\ IsNone(eval.style)
    /\ \E i \in 1 .. Len(accounts) :
          /\ accounts[i].id = eval.id
          /\ ~CoolsDown(accounts[i])
          /\ Exhausted(accounts[i], "gemini-antigravity", eval.model)
          /\ Exhausted(accounts[i], "gemini-cli", eval.model)

---------------------------------------------------------------------------
(* accounts.py: get_min_wait_time_for_family on its own, the one query of a *)
(* run on a pool marked, cooled down and aged as in LimitSpec.              *)

QueryMinWait(family, model) ==
    /\ eval = NoEval
    /\ eval' = [fn |-> "get_min_wait_time_for_family", family |-> family, model |-> model,
                wait |-> get_min_wait_time_for_family(accounts, family, model)]
    /\ UNCHANGED <<disk, loaded, accounts, active, cache, cfg, task, ghost, marks,
                   pool_ops, lock, proc, torn, call, orphans>>

WaitNext ==
    \/ \E id \in Ids, d \in PoolDelays \ {0}, a \in KeyArgs :
          eval = NoEval /\ PoolMarkRateLimited(id, d, a[1], a[2], a[3])
    \/ \E id \in Ids, d \in PoolDelays \ {0} : eval = NoEval /\ PoolMarkCoolingDown(id, d)
    \/ \E a \in KeyArgs : QueryMinWait(a[1], a[3])
    \/ \E d \in TickSteps : eval = NoEval /\ Tick(d)

WaitSpec == LimitInit /\ [][WaitNext]_vars

\* the remaining times of the cooldown and of the family's reset times of a pool
\* that are positive
PositiveWaits(accs, family) ==
    {w \in UNION {(IF accs[i].cooling_down_until = None THEN {}
                   ELSE {accs[i].cooling_down_until[1]})
                  \cup {accs[i].rate_limit_reset_times[k] :
                           k \in {key \in DOMAIN accs[i].rate_limit_reset_times :
                                     (key[1] = "claude") <=> (family = MODEL_FAMILY_CLAUDE)}} :
                  i \in 1 .. Len(accs)} : w > 0}

\* what the claim says of the wait returned for a pool
MinWaitOf(accs, family, model, wait) ==
    LET available == \E i \in 1 .. Len(accs) : ~is_rate_limited(accs[i], family, model)
    IN  /\ wait = 0 <=> available
        /\ ~available =>
              /\ wait > 0
              /\ IF PositiveWaits(accs, family) = {} THEN wait = 60000
                 ELSE wait = SetMin(PositiveWaits(accs, family))

\* C30: get_min_wait_time_for_family returns 0 if and only if some account is
\* not rate-limited for the family and model; with every account rate-limited
\* it returns the smallest positive remaining time among the cooldown ends and
\* the family's reset times, or 60000 when there is none.
C30_MinWaitPositive ==
    [][\A a \in KeyArgs :
          QueryMinWait(a[1], a[3]) => MinWaitOf(accounts, a[1], a[3], eval'.wait)]_vars

---------------------------------------------------------------------------
(* accounts.py: mark_rate_limited called again and again on a pool, with    *)
(* time passing in between.  Each call leaves in eval the key it wrote and  *)
(* the reset time it found under it.                                       *)

\* retry_after_ms arguments: a short and a long delay
MarkDelays == {5000, 180000}

MarkRateLimited(id, retry_after_ms, family, header_style, model) ==
    /\ pool_ops < MaxPoolOps
    /\ InPool(accounts, id)
    /\ pool_ops' = pool_ops + 1
    /\ accounts' = mark_rate_limited(accounts, id, retry_after_ms, family, header_style, model)
    /\ LET quota_key == get_quota_key(family, header_style, model)
           times == PooledAccount(accounts, id).rate_limit_reset_times
       IN  eval' = [fn |-> "mark_rate_limited", id |-> id, quota_key |-> quota_key,
                    retry_after_ms |-> retry_after_ms,
                    before |-> IF quota_key \in DOMAIN times THEN Some(times[quota_key])
                               ELSE None]
    /\ UNCHANGED <<disk, loaded, active, cache, cfg, task, ghost, marks, lock, proc,
                   torn, call, orphans>>

MarkNext ==
    \/ \E id \in Ids, d \in MarkDelays, a \in KeyArgs : MarkRateLimited(id, d, a[1], a[2], a[3])
    \/ \E d \in TickSteps : Tick(d)

MarkSpec == LimitInit /\ [][MarkNext]_vars

\* C31: a second mark_rate_limited on a quota key of an account stores the
\* time of the call plus its delay under the key (the remaining time is the
\* delay itself), whether that is later or sooner than the reset time the
\* key held: the reset times are overwritten, not max-merged.
C31_ResetOverwritten ==
    [][\A id \in Ids, d \in MarkDelays, a \in KeyArgs :
          (/\ MarkRateLimited(id, d, a[1], a[2], a[3])
           /\ get_quota_key(a[1], a[2], a[3])
                 \in DOMAIN PooledAccount(accounts, id).rate_limit_reset_times)
          => PooledAccount(accounts', id).rate_limit_reset_times[get_quota_key(a[1], a[2], a[3])]
                = d]_vars

\* a key that held a reset time 180 s ahead has been marked with 5 s and
\* holds 5 s
C31_Witness ==
    /\ eval.fn = "mark_rate_limited"
    /\ eval.before = Some(180000)
    /\ eval.retry_after_ms = 5000
    /\ InPool(accounts, eval.id)
    /\ PooledAccount(accounts, eval.id).rate_limit_reset_times[eval.quota_key] = 5000

---------------------------------------------------------------------------
(* token.py: what refresh_access_token makes of the token endpoint's reply, *)
(* and generate with each reply.                                           *)

\* a reply is its status (0: no reply, the request raised), whether its body
\* is JSON, the error code of the body and whether it holds an access_token
RefreshReplies ==
    [status_code : {0}, json : {FALSE}, error : {""}, access_token : {FALSE}]
    \cup [status_code : {200, 400, 500}, json : {FALSE}, error : {""}, access_token : {FALSE}]
    \cup [status_code : {400, 500}, json : {TRUE}, error : {"invalid_grant", "invalid_client", ""},
          access_token : {FALSE}]
    \cup [status_code : {200}, json : {TRUE}, error : {""}, access_token : BOOLEAN]

\* mutant: every error reply of the endpoint counts as a revoked token
refresh_reply_error_revokes(reply) ==
    IF reply.status_code = 0 THEN "none"
    ELSE IF reply.status_code # 200 THEN "invalid_grant"
    ELSE IF ~reply.json THEN "none"
    ELSE IF ~reply.access_token THEN "none"
    ELSE "tokens"

\* lines 143-180: "tokens" (the AuthDetails is built), "invalid_grant"
\* (TokenRefreshError is raised) or "none" (None is returned)
refresh_reply(reply) ==
    IF reply.status_code = 0 THEN "none"
    ELSE IF reply.status_code # 200
    THEN IF ~reply.json THEN "none"
         ELSE IF reply.error = "invalid_grant" THEN "invalid_grant"
         ELSE "none"
    ELSE IF ~reply.json THEN "none"
    ELSE IF ~reply.access_token THEN "none"
    ELSE "tokens"

\* the awaited refresh request of task t ends with the reply
RefreshReply(t, reply) ==
    CASE refresh_reply(reply) = "none" -> RefreshNone(t)
      [] refresh_reply(reply) = "invalid_grant" -> RefreshRevoked(t)
      [] OTHER -> \E e \in ExpiresIn, rotate \in Rotations : RefreshOk(t, e, rotate)

ReplyInit ==
    /\ Init
    /\ cfg.quota_fallback
    /\ cfg.max_rate_limit_wait_seconds = 60

ReplyNext ==
    \/ Next
    \/ \E t \in Tasks, reply \in RefreshReplies : RefreshReply(t, reply)

ReplySpec == ReplyInit /\ [][ReplyNext]_vars

\* the failures of a refresh that are no invalid_grant: no reply, a body that
\* does not parse, another status than 200, no access_token
Transient(reply) ==
    \/ reply.status_code = 0
    \/ ~reply.json
    \/ reply.status_code # 200 /\ reply.error # "invalid_grant"
    \/ reply.status_code = 200 /\ ~reply.access_token

---------------------------------------------------------------------------
(* accounts.py: remove_account among the other operations of the pool; each *)
(* call leaves the account it was given and what it returned in eval.       *)

RemoveAccount(id) ==
    /\ pool_ops < MaxPoolOps
    /\ pool_ops' = pool_ops + 1
    /\ LET r == remove_account(accounts, active, id)
       IN  /\ accounts' = r.accounts
           /\ active' = r.active
           /\ eval' = [fn |-> "remove_account", id |-> id, removed |-> r.removed,
                       n |-> Len(accounts)]
    /\ marks' = DropMarks(marks, id)
    /\ UNCHANGED <<disk, loaded, cache, cfg, task, ghost, lock, proc, torn, call, orphans>>

RemoveNext ==
    \/ \E id \in Ids, d \in PoolDelays, a \in KeyArgs :
          PoolMarkRateLimited(id, d, a[1], a[2], a[3])
    \/ \E a \in PoolEnsureArgs : PoolEnsureAccountExists(a[1], a[2], a[3], a[4], 0)
    \/ \E a \in KeyArgs : PoolGetCurrentOrNext(a[1], a[3], a[2])
    \/ \E id \in Ids : RemoveAccount(id)

RemoveSpec == PoolInit /\ [][RemoveNext]_vars

\* the account without its index
Unindexed(account) == [account EXCEPT !.index = 0]

\* what the claim says of remove_account: the pool and the indices before,
\* the account given, the pool and the indices after, the value returned
RemovedExactly(accs, act, id, accs_after, act_after, removed) ==
    LET n == Len(accs_after)
    IN  IF InPool(accs, id)
        THEN /\ removed
             /\ n = Len(accs) - 1
             /\ ~InPool(accs_after, id)
             /\ \A i \in 1 .. Len(accs) :
                   accs[i].id # id =>
                      LET k == i - Cardinality({j \in 1 .. (i - 1) : accs[j].id = id})
                      IN  Unindexed(accs_after[k]) = Unindexed(accs[i])
             /\ \A k \in 1 .. n : accs_after[k].index = k - 1
             /\ \A f \in Families :
                   /\ act[f] < n => act_after[f] = act[f]
                   /\ (act[f] >= n /\ n > 0) => act_after[f] = n - 1
        ELSE ~removed /\ accs_after = accs /\ act_after = act

\* C33: remove_account of a pooled account removes that account alone, keeps
\* the order of the others, renumbers them by position and moves an active
\* index only when it points past the end, to the last position; for an
\* account that is not pooled it returns false and changes nothing; and the
\* index of every pooled account is its position in every state.
C33_RemoveReindexes ==
    /\ [](\A k \in 1 .. Len(accounts) : accounts[k].index = k - 1)
    /\ [][\A id \in Ids :
             RemoveAccount(id)
             => RemovedExactly(accounts, active, id, accounts', active', eval'.removed)]_vars

\* the first of two accounts has been removed: the second is at position and
\* index 0
C33_Witness ==
    /\ eval.fn = "remove_account"
    /\ eval.removed
    /\ eval.id = 1
    /\ eval.n = 2
    /\ Len(accounts) = 1
    /\ accounts[1].id = 2
    /\ accounts[1].index = 0

---------------------------------------------------------------------------
(* Two generate() calls on one service: both coroutines share the pool and  *)
(* the token cache.  A coroutine keeps the account object it selected over  *)
(* its awaits; when the other coroutine removes that account meanwhile, the *)
(* object is out of the pool and keeps the index it had (remove_account     *)
(* renumbers only the accounts that stay).                                  *)

RaceInit ==
    /\ disk \in InitDisks
    /\ loaded = FALSE
    /\ accounts = << >>
    /\ active = [f \in Families |-> 0]
    /\ cache = EmptyDict
    /\ cfg = [model |-> GEMINI_3_PRO, quota_fallback |-> TRUE, max_rate_limit_wait_seconds |-> 60]
    /\ task = [t \in ConcTasks |-> IdleTask]
    /\ ghost = [t \in ConcTasks |-> IdleGhost]
    /\ marks = EmptyDict
    /\ pool_ops = 0
    /\ lock = None
    /\ proc = [p \in Procs |-> IdleProc]
    /\ torn = FALSE
    /\ call = IdleCall
    /\ eval = NoEval
    /\ orphans = EmptyDict

\* the account object a task holds is no longer in the pool
Stale(t) == ~InPool(accounts, task[t].account)

\* service.py lines 137-143 and 228-230 with accounts.py lines 491-505:
\* invalid_grant for a pooled account; it is removed and keeps its index, the
\* others are renumbered, the pool is saved, a try counted
RaceRevoked(t) ==
    /\ task[t].pc = "refreshing"
    /\ ~Stale(t)
    /\ LET r == remove_account(accounts, active, task[t].account)
       IN  /\ accounts' = r.accounts
           /\ active' = r.active
           /\ disk' = save_to_disk(r.accounts, r.active)
    /\ orphans' = Put(orphans, task[t].account, Obj(accounts, task[t].account))
    /\ task' = [task EXCEPT ![t].pc = "loop",
                            ![t].retries = @ + 1,
                            ![t].started = 0]
    /\ marks' = DropMarks(marks, task[t].account)
    /\ ghost' = [RefreshFailedGhost(t) EXCEPT ![t].saves = Min(@ + 1, 2)]
    /\ UNCHANGED <<loaded, cache, cfg, pool_ops, lock, proc, torn, call, eval>>

\* service.py lines 137-143 for an account removed meanwhile: remove_account
\* finds nothing (accounts.py lines 491-492), the pool is saved, a try counted
StaleRevoked(t) ==
    /\ task[t].pc = "refreshing"
    /\ Stale(t)
    /\ disk' = save_to_disk(remove_account(accounts, active, task[t].account).accounts,
                            remove_account(accounts, active, task[t].account).active)
    /\ task' = [task EXCEPT ![t].pc = "loop",
                            ![t].retries = @ + 1,
                            ![t].started = 0]
    /\ ghost' = [RefreshFailedGhost(t) EXCEPT ![t].saves = Min(@ + 1, 2)]
    /\ UNCHANGED <<loaded, accounts, active, cache, cfg, marks, pool_ops, lock, proc, torn, call, eval, orphans>>

\* service.py lines 131-135 and 237-250 for an account removed meanwhile: the
\* token is stored under the index the removed object still carries
StaleRefreshOk(t, expires_in, rotate) ==
    /\ task[t].pc = "refreshing"
    /\ Stale(t)
    /\ LET account == orphans[task[t].account]
           refreshed == refresh_access_token(
                            account.refresh_token, account.id,
                            IF rotate THEN Some(Rotated(account.refresh_token)) ELSE None,
                            task[t].started, expires_in)
       IN  /\ orphans' = [orphans EXCEPT ![account.id].refresh_token =
                              parse_refresh_parts(refreshed.refresh).refresh_token]
           /\ cache' = Put(cache, account.index, refreshed)
           /\ task' = [task EXCEPT ![t].pc = "requesting",
                                   ![t].access = refreshed.access,
                                   ![t].started = 0]
    /\ UNCHANGED <<disk, loaded, accounts, active, cfg, ghost, marks, pool_ops, lock, proc, torn, call, eval>>

\* service.py lines 287-290 for an account removed meanwhile: the counter of the
\* removed object is reset, the pool is saved as it is
StaleSuccess(t, response) ==
    /\ task[t].pc = "requesting"
    /\ Stale(t)
    /\ response.status_code # 429
    /\ response.success
    /\ orphans' = [orphans EXCEPT ![task[t].account].consecutive_failures = 0]
    /\ disk' = save_to_disk(accounts, active)
    /\ task' = [task EXCEPT ![t].pc = "done", ![t].result = "text"]
    /\ ghost' = [ghost EXCEPT ![t].last = NoLast, ![t].saves = Min(@ + 1, 2)]
    /\ UNCHANGED <<loaded, accounts, active, cache, cfg, marks, pool_ops, lock, proc, torn, call, eval>>

\* what a coroutine does between two awaits; the upstream answers these calls
\* with a result or an error other than 429 (rate limits touch neither the
\* token cache nor the membership of the pool)
RaceStep(t) ==
    \/ Runnable(t) /\ LoopExhausted(t)
    \/ Runnable(t) /\ SelectNoneSleep(t)
    \/ Runnable(t) /\ SelectCached(t)
    \/ Runnable(t) /\ SelectRefresh(t)
    \/ Runnable(t) /\ Wake(t)
    \/ Runnable(t) /\ RefreshNone(t)
    \/ Runnable(t) /\ ~Stale(t) /\ \E e \in ExpiresIn, rotate \in Rotations : RefreshOk(t, e, rotate)
    \/ Runnable(t) /\ RaceRevoked(t)
    \/ Runnable(t) /\ StaleRevoked(t)
    \/ Runnable(t) /\ \E e \in ExpiresIn, rotate \in Rotations : StaleRefreshOk(t, e, rotate)
    \/ Runnable(t) /\ ~Stale(t) /\ \E upstream \in Upstreams : OnSuccess(t, execute(upstream))
    \/ Runnable(t) /\ \E upstream \in Upstreams : StaleSuccess(t, execute(upstream))
    \/ Runnable(t) /\ \E upstream \in Upstreams : OnError(t, execute(upstream))

\* the event loop runs one coroutine at a time, from one await to the next
RaceNext ==
    \/ \E t \in ConcTasks, model_arg \in ModelArgs, max_retries \in MaxRetriesArgs :
          GenStart(t, model_arg, max_retries)
    \/ \E t \in ConcTasks : RaceStep(t)
    \/ \E d \in TickSteps : Tick(d)

RaceSpec == RaceInit /\ [][RaceNext]_vars

\* C34: every upstream generation request sent for an account carries an access
\* token obtained by refreshing that account's own refresh token (the token
\* endpoint is asked with the refresh token of account x and answers with the
\* access token of x: a token's value is the identity it belongs to)
C34_TokenCacheIntegrity ==
    \A t \in DOMAIN task :
        task[t].pc = "requesting" => task[t].access = task[t].account

---------------------------------------------------------------------------
(* Rate-limit marks and the storage file *)

\* the account a manager freshly loaded from `storage` has at the position the
\* pooled account `id` has in the running pool (save_to_disk writes the pool in
\* order)
Reloaded(storage, accs, id) == LoadManager(storage).accounts[Pos(accs, id)]

\* C35: after generate has marked an account for a long 429 and saved the pool,
\* a manager freshly loaded from the storage file reports the account
\* rate-limited for the family, header style and model of the request, for
\* Claude and for Gemini models alike
C35_MarksSurvivePersistence ==
    [][\A t \in Tasks, upstream \in Upstreams :
          On429Long(t, execute(upstream)) =>
              is_rate_limited_for_header_style(
                  Reloaded(disk', accounts', task[t].account),
                  task[t].family, task[t].header_style, task[t].model)]_vars

---------------------------------------------------------------------------
(* An emptied pool *)

\* C36: generate never goes to sleep for a rate-limit reset (service.py lines
\* 204-223) while the pool holds no account: when its last account is removed
\* on invalid_grant the call ends with an error instead
C36_NoSleepOnEmptyPool ==
    [][\A t \in Tasks : SelectNoneSleep(t) => Len(accounts) > 0]_vars

---------------------------------------------------------------------------
(* service.py: generate_with_history.  A call runs without an await from    *)
(* its start to the token refresh or, with a cached token, to the request.  *)

HistInit == Init

\* lines 452-491 with _get_auth_for_account lines 114-130: resolve the model,
\* load the manager, refuse an empty pool, select an account or raise, then
\* send the request with the cached token or send the refresh request
HistStart(t, model_arg) ==
    /\ task[t].pc \in {"idle", "done"}
    /\ Runnable(t)
    /\ task[t].calls < MaxCalls
    /\ LET model == IF model_arg # << >> THEN model_arg ELSE cfg.model
           family == get_model_family(model)
           header_style == get_header_style_from_model(model)
           mgr == IF loaded THEN [accounts |-> accounts, active |-> active]
                  ELSE LoadManager(disk)
           empty == Len(mgr.accounts) = 0
           sel == get_current_or_next_for_family(mgr.accounts, mgr.active, family,
                                                 model, header_style)
           account == At(mgr.accounts, Val(sel.pos))
           started == [IdleTask EXCEPT !.calls = task[t].calls + 1,
                                       !.model = model,
                                       !.family = family,
                                       !.header_style = header_style]
       IN  /\ loaded' = TRUE
           /\ accounts' = mgr.accounts
           /\ active' = IF empty THEN mgr.active ELSE sel.active
           /\ task' = [task EXCEPT ![t] =
                IF empty
                THEN [started EXCEPT !.pc = "done", !.result = "NoAccountsError"]
                ELSE IF IsNone(sel.pos)
                THEN [started EXCEPT
                         !.pc = "done",
                         !.result = "AllAccountsRateLimitedError",
                         !.wait_time_ms = get_min_wait_time_for_family(mgr.accounts,
                                                                       family, model)]
                ELSE IF CachedValid(account)
                THEN [started EXCEPT !.pc = "requesting",
                                     !.account = account.id,
                                     !.access = cache[account.index].access]
                ELSE [started EXCEPT !.pc = "refreshing", !.account = account.id]]
           /\ ghost' = [ghost EXCEPT ![t] = IdleGhost]
    /\ UNCHANGED <<disk, cache, cfg, marks, pool_ops, lock, proc, torn, call, eval, orphans>>

\* lines 491-493 with _get_auth_for_account lines 129-144: the refresh request
\* ends with tokens ("tokens": cache them, send the request), with a failure
\* ("none": AntigravityError) or with invalid_grant (remove the account, save,
\* TokenRefreshFailedError)
HistRefresh(t, outcome, expires_in, rotate) ==
    /\ task[t].pc = "refreshing"
    /\ LET account == Obj(accounts, task[t].account)
           refreshed == refresh_access_token(
                            account.refresh_token, account.id,
                            IF rotate THEN Some(Rotated(account.refresh_token)) ELSE None,
                            task[t].started, expires_in)
           r == remove_account(accounts, active, task[t].account)
       IN  CASE outcome = "tokens" ->
                  /\ accounts' = [accounts EXCEPT ![Pos(accounts, account.id)].refresh_token =
                                     parse_refresh_parts(refreshed.refresh).refresh_token]
                  /\ cache' = Put(cache, account.index, refreshed)
                  /\ task' = [task EXCEPT ![t].pc = "requesting",
                                          ![t].access = refreshed.access,
                                          ![t].started = 0]
                  /\ UNCHANGED <<disk, active, marks>>
             [] outcome = "none" ->
                  /\ task' = [task EXCEPT ![t].pc = "done",
                                          ![t].result = "AntigravityError",
                                          ![t].started = 0]
                  /\ UNCHANGED <<disk, accounts, active, cache, marks>>
             [] OTHER ->
                  /\ accounts' = r.accounts
                  /\ active' = r.active
                  /\ disk' = save_to_disk(r.accounts, r.active)
                  /\ marks' = DropMarks(marks, task[t].account)
                  /\ task' = [task EXCEPT ![t].pc = "done",
                                          ![t].result = "TokenRefreshFailedError",
                                          ![t].started = 0]
                  /\ UNCHANGED cache
    /\ UNCHANGED <<loaded, cfg, ghost, pool_ops, lock, proc, torn, call, eval, orphans>>

\* lines 497-511: the response of generate_content: the text of a success,
\* AntigravityError for anything else
HistResponse(t, response) ==
    /\ task[t].pc = "requesting"
    /\ task' = [task EXCEPT ![t].pc = "done",
                            ![t].result = IF response.success THEN "text"
                                          ELSE "AntigravityError"]
    /\ UNCHANGED <<disk, loaded, accounts, active, cache, cfg, ghost, marks, pool_ops, lock, proc, torn, call, eval, orphans>>

HistNext ==
    \/ \E t \in Tasks, model_arg \in ModelArgs : HistStart(t, model_arg)
    \/ \E t \in Tasks, outcome \in {"tokens", "none", "invalid_grant"},
          e \in ExpiresIn, rotate \in Rotations : HistRefresh(t, outcome, e, rotate)
    \/ \E t \in Tasks, upstream \in Upstreams : HistResponse(t, execute(upstream))
    \/ \E d \in TickSteps : Tick(d)

HistSpec == HistInit /\ [][HistNext]_vars

\* what the dispatch of generate does with the response of a request (service.py
\* lines 253-294), seen in the pool, the file and the call: a long 429 marks the
\* account, saves and goes on; a short 429 and any other failure go on (the
\* first failure of a call does not use up the default of 3 tries); a success
\* resets consecutive_failures, saves and returns the text
DispatchedLikeGenerate(t, response) ==
    LET id == task[t].account
    IN  IF response.status_code = 429
        THEN IF RetryAfter(response) <= SHORT_RETRY_THRESHOLD_MS
             THEN accounts' = accounts /\ disk' = disk /\ task'[t].pc # "done"
             ELSE /\ accounts' = mark_rate_limited(accounts, id, RetryAfter(response),
                                                   task[t].family, task[t].header_style,
                                                   task[t].model)
                  /\ disk' = save_to_disk(accounts', active')
                  /\ task'[t].pc # "done"
        ELSE IF response.success
        THEN /\ accounts' = [accounts EXCEPT ![Pos(accounts, id)].consecutive_failures = 0]
             /\ disk' = save_to_disk(accounts', active')
             /\ task'[t].pc = "done"
             /\ task'[t].result = "text"
        ELSE accounts' = accounts /\ disk' = disk /\ task'[t].pc # "done"

\* C37: generate_with_history runs the dispatch of generate: the response of its
\* request is handled as generate handles it (a long 429 marks the account,
\* persists and is followed by another try, a success resets
\* consecutive_failures and persists, a failure is retried)
C37_HistoryDispatchesLikeGenerate ==
    [][\A t \in Tasks, upstream \in Upstreams :
          HistResponse(t, execute(upstream)) =>
              DispatchedLikeGenerate(t, execute(upstream))]_vars

---------------------------------------------------------------------------
(* The login flow of another process while the service runs: it adds an     *)
(* identity to the storage file with add_or_update_account.  The identity   *)
(* has an email of its own, so the running service, which loaded its pool   *)
(* before, never holds it and never removes it.                             *)

LoginEmail == << "user", MaxAccounts + 1 >>
LoginRefresh == << MaxAccounts + 1, 0 >>

\* storage.py lines 367-405 run by the other process on the file as it is
Login(email, refresh_token) ==
    /\ loaded
    /\ eval = NoEval
    /\ disk' = add_or_update_account(disk, email, refresh_token, None, None, 0)
    /\ eval' = [fn |-> "add_or_update_account", email |-> email]
    /\ UNCHANGED <<loaded, accounts, active, cache, cfg, task, ghost, marks, pool_ops, lock, proc, torn, call, orphans>>

LoginNext ==
    \/ Next
    \/ Login(LoginEmail, LoginRefresh)

LoginSpec == Init /\ [][LoginNext]_vars

\* C38: an identity that add_or_update_account wrote to the storage file while
\* the service was running is still in the file after the service has saved
\* its pool following a success or a long 429
C38_PersistKeepsAdded ==
    [][\A t \in Tasks, upstream \in Upstreams :
          /\ eval.fn = "add_or_update_account"
          /\ OnSuccess(t, execute(upstream)) \/ On429Long(t, execute(upstream))
          => \E i \in 1 .. Len(disk'.accounts) : disk'.accounts[i].email = eval.email]_vars

---------------------------------------------------------------------------
(* add_or_update_account and the order of the stored identities, checked   *)
(* under StorageSpec                                                       *)

\* the stored identity `after` is `before` with the refresh secret, the project
\* fields and last_used possibly changed
SameIdentity(before, after) ==
    after = [before EXCEPT !.refresh_token = after.refresh_token,
                           !.project_id = after.project_id,
                           !.managed_project_id = after.managed_project_id,
                           !.last_used = after.last_used]

\* this step is add_or_update_account with these arguments, and it keeps the
\* insertion order: an email no stored identity has (or no email) puts the new
\* identity last and leaves the others where they are; the email of a stored
\* identity changes that identity alone, in place, and no active index
C39_OrderKept(email, refresh_token, project_id, managed_project_id) ==
    (/\ pool_ops' = pool_ops + 1
     /\ accounts' = accounts
     /\ disk' = add_or_update_account(disk, email, refresh_token, project_id,
                                      managed_project_id, pool_ops + 1))
    => LET before == disk.accounts
           after == disk'.accounts
           matched == {i \in 1 .. Len(before) : Truthy(email) /\ before[i].email = email}
       IN  IF matched = {}
           THEN /\ Len(after) = Len(before) + 1
                /\ \A i \in 1 .. Len(before) : after[i] = before[i]
                /\ after[Len(after)].email = email
                /\ after[Len(after)].refresh_token = refresh_token
           ELSE /\ Len(after) = Len(before)
                /\ \A i \in 1 .. Len(before) :
                      IF i \in matched
                      THEN SameIdentity(before[i], after[i])
                           /\ after[i].refresh_token = refresh_token
                      ELSE after[i] = before[i]
                /\ disk'.active_index = disk.active_index
                /\ disk'.active_index_by_family = disk.active_index_by_family

\* C39: add_or_update_account keeps the insertion order, for every stored pool
\* and every argument tuple: a new identity goes to the end and every stored
\* identity keeps its position; an update changes the refresh secret, the
\* project fields and last_used of the matching identity only, so each active
\* index keeps pointing at the same identity
C39_InsertionOrderKept ==
    [][\A email \in EmailArgs, refresh_token \in RefreshArgs,
          project_id \in ProjectArgs, managed_project_id \in ProjectArgs :
          C39_OrderKept(email, refresh_token, project_id, managed_project_id)]_vars

---------------------------------------------------------------------------
(* remove_account and the active accounts: pools of one account more than   *)
(* the other specifications load, so that an account can be removed in      *)
(* front of an active one that is not the last                              *)

WideDisks ==
    {[accounts |-> [i \in 1 .. (MaxAccounts + 1) |-> InitMetadata(i, None)],
      active_index |-> g,
      active_index_by_family |-> [f \in Families |-> g]] : g \in 0 .. MaxAccounts}

ActiveInit ==
    /\ disk \in WideDisks
    /\ loaded = TRUE
    /\ accounts = LoadManager(disk).accounts
    /\ active = LoadManager(disk).active
    /\ cache = EmptyDict
    /\ cfg = [model |-> GEMINI_3_PRO, quota_fallback |-> TRUE, max_rate_limit_wait_seconds |-> 0]
    /\ task = [t \in Tasks |-> IdleTask]
    /\ ghost = [t \in Tasks |-> IdleGhost]
    /\ marks = EmptyDict
    /\ pool_ops = 0
    /\ lock = None
    /\ proc = [p \in Procs |-> IdleProc]
    /\ torn = FALSE
    /\ call = IdleCall
    /\ eval = NoEval
    /\ orphans = EmptyDict

\* the pool is full: no account is added
ActiveNext ==
    \/ \E id \in Ids, d \in PoolDelays, a \in KeyArgs :
          PoolMarkRateLimited(id, d, a[1], a[2], a[3])
    \/ \E a \in KeyArgs : PoolGetCurrentOrNext(a[1], a[3], a[2])
    \/ \E id \in Ids : RemoveAccount(id)

ActiveSpec == ActiveInit /\ [][ActiveNext]_vars

\* the account the active index of family f designates
ActiveAccount(accs, act, f) == At(accs, act[f])

\* C40: when remove_account removes an account that is not the active account
\* of a family, the active index of that family designates the same account
\* after the removal as before
C40_RemovalKeepsActive ==
    [][\A id \in Ids, f \in Families :
          /\ RemoveAccount(id)
          /\ InPool(accounts, id)
          /\ active[f] \in Indices(accounts)
          /\ ActiveAccount(accounts, active, f).id # id
          => /\ active'[f] \in Indices(accounts')
             /\ ActiveAccount(accounts', active', f).id
                   = ActiveAccount(accounts, active, f).id]_vars

====
